---- MODULE Spec2Model ----
(***************************************************************************)
(* The shaping cache (LockFreeShapeCache), the per-frame descriptor pool   *)
(* (ZeroAllocTextAreaPool), the cell grid and the per-frame driver         *)
(* (GlyphonTextureRenderer::render_to_texture) of the glyphon text path.   *)
(*                                                                         *)
(* Arrays are functions over 0..len-1, Option<T> is a sequence of length   *)
(* at most one (<<>> is None, <<x>> is Some(x)), a u64 fingerprint is a    *)
(* tuple of eight bytes, least significant first, and a text is the        *)
(* sequence of its bytes.  A shaped glyphon Buffer is recorded by the text *)
(* it was shaped from.                                                     *)
(***************************************************************************)
EXTENDS Integers, Sequences, FiniteSets, TLC

VARIABLES shape_cache, text_area_pool, cell_grid, frame_count, op, history

vars == <<shape_cache, text_area_pool, cell_grid, frame_count, op, history>>

(***************************************************************************)
(* Sizes of the model.  SIZE is the const generic of the cache that is     *)
(* driven through its own operations; SHAPE_CACHE_SIZE and                 *)
(* TEXT_AREA_POOL_SIZE are those of the renderer's cache and pool (2048    *)
(* and 128 in the source, scaled down here); COLS and ROWS are the const   *)
(* generics of the grid.                                                   *)
(***************************************************************************)
SIZE == 4

SHAPE_CACHE_SIZE == 4

TEXT_AREA_POOL_SIZE == 1

COLS == 2

ROWS == 2

MaxCalls == 7

MaxFrame == 2

MaxSweeps == 1

MaxRenders == 2

MaxChanges == 3

MaxAdds == 4

MaxShapeCalls == 6

MaxCollideCalls == 5

MaxHashCalls == 2

MaxSharedCalls == 4

MaxResets == 3

\* TextRenderConfig: the scaled line height and the surface width, in pixels
LineHeightScaled == 20

SurfaceWidth == 100

None == <<>>

Some(x) == <<x>>

Min(S) == CHOOSE x \in S : \A y \in S : x <= y

(***************************************************************************)
(* 64-bit arithmetic on eight 8-bit limbs.                                 *)
(***************************************************************************)
Limbs == 8

RECURSIVE BitXor(_, _)
BitXor(a, b) ==
    IF a = 0 THEN b
    ELSE IF b = 0 THEN a
    ELSE (((a % 2) + (b % 2)) % 2) + (2 * BitXor(a \div 2, b \div 2))

\* hash ^= byte as u64
XorByte(hash, byte) == [hash EXCEPT ![1] = BitXor(hash[1], byte)]

\* column k (1-based) of the schoolbook product, before carries
RECURSIVE MulColumn(_, _, _, _)
MulColumn(a, b, k, i) ==
    IF i > k THEN 0 ELSE (a[i] * b[k - i + 1]) + MulColumn(a, b, k, i + 1)

RECURSIVE MulCarry(_, _, _, _)
MulCarry(a, b, k, carry) ==
    IF k > Limbs THEN <<>>
    ELSE LET s == MulColumn(a, b, k, 1) + carry
         IN  <<s % 256>> \o MulCarry(a, b, k + 1, s \div 256)

\* u64::wrapping_mul: the product modulo 2^64
wrapping_mul(a, b) == MulCarry(a, b, 1, 0)

\* 0xcbf29ce484222325
FNV_OFFSET_BASIS == <<37, 35, 34, 132, 228, 156, 242, 203>>

\* 0x100000001b3
FNV_PRIME == <<179, 1, 0, 0, 0, 1, 0, 0>>

FnvStep(hash, byte) == wrapping_mul(XorByte(hash, byte), FNV_PRIME)

\* the remainder loop: one byte at a time from position i (1-based)
RECURSIVE FnvTail(_, _, _)
FnvTail(hash, bytes, i) ==
    IF i <= Len(bytes) THEN FnvTail(FnvStep(hash, bytes[i]), bytes, i + 1)
    ELSE hash

\* as FnvChunks, without the loop for the bytes that remain
RECURSIVE FnvChunksOnly(_, _, _)
FnvChunksOnly(hash, bytes, i) ==
    IF i + 3 <= Len(bytes)
    THEN FnvChunksOnly(
           FnvStep(FnvStep(FnvStep(FnvStep(hash, bytes[i]), bytes[i + 1]),
                           bytes[i + 2]), bytes[i + 3]),
           bytes, i + 4)
    ELSE hash

\* the unrolled loop: four bytes per iteration while four remain
RECURSIVE FnvChunks(_, _, _)
FnvChunks(hash, bytes, i) ==
    IF i + 3 <= Len(bytes)
    THEN FnvChunks(
           FnvStep(FnvStep(FnvStep(FnvStep(hash, bytes[i]), bytes[i + 1]),
                           bytes[i + 2]), bytes[i + 3]),
           bytes, i + 4)
    ELSE FnvTail(hash, bytes, i)

\* as hash_text_fnv1a_optimized, with the frame number folded into the basis
hash_text_fnv1a_seeded(text) == FnvChunks(XorByte(FNV_OFFSET_BASIS, frame_count), text, 1)

hash_text_fnv1a_optimized(text) == FnvChunks(FNV_OFFSET_BASIS, text, 1)

\* texts hashed directly: shorter than, as long as and longer than the four
\* bytes of one round of the unrolled loop
HashTexts == {<<97>>, <<97, 98, 97, 98>>, <<97, 98, 32, 97, 98>>}

\* the texts "a", "b", ...: one more than the cache has slots
Texts == {<<96 + k>> : k \in 1..(SIZE + 1)}

\* the characters a cell may hold: ' ', 'a', 'b'
Chars == {32, 97, 98}

\* every text a row of the grid can spell
RowTexts == UNION {[1..n -> Chars] : n \in 0..COLS}

\* the texts the model uses, each with its fingerprint, computed once
HashPairs == {<<text, hash_text_fnv1a_optimized(text)>> : text \in Texts \cup RowTexts}

\* hash_text_fnv1a_optimized(text), looked up when it is already computed
text_hash_of(text) ==
    IF \E p \in HashPairs : p[1] = text
    THEN (CHOOSE p \in HashPairs : p[1] = text)[2]
    ELSE hash_text_fnv1a_optimized(text)

(***************************************************************************)
(* LockFreeShapeCache<SIZE>                                                *)
(***************************************************************************)
ZeroHash == [k \in 1..Limbs |-> 0]

\* the external shaper: Buffer::new, set_text, shape_until_scroll
Shape(text) == [text |-> text, layout_runs |-> 1]

\* the Buffer of a shaper that produced no layout run for the text
NoRuns(text) == [text |-> text, layout_runs |-> 0]

\* str::trim().is_empty()
trim_is_empty(text) == \A k \in 1..Len(text) : text[k] = 32

\* ShapeCacheEntry::default and the entries of LockFreeShapeCache::new
EmptyEntry == [text_hash |-> ZeroHash, buffer |-> None, last_used |-> 0, hit_count |-> 0]

\* LockFreeShapeCache::<size>::new(); the const generic is kept in the field SIZE
NewShapeCache(size) ==
    [SIZE |-> size, entries |-> [i \in 0..(size - 1) |-> EmptyEntry],
     next_index |-> 0, hit_count |-> 0, miss_count |-> 0]

\* as find_cached_entry, with the test on the buffer inverted
find_cached_entry_empty_only(c, text_hash) ==
    LET found == {i \in 0..(c.SIZE - 1) :
                    c.entries[i].text_hash = text_hash /\ c.entries[i].buffer = None}
    IN  IF found = {} THEN None ELSE Some(Min(found))

\* as find_cached_entry, matching on the fingerprint alone
find_cached_entry_hash_only(c, text_hash) ==
    LET found == {i \in 0..(c.SIZE - 1) : c.entries[i].text_hash = text_hash}
    IN  IF found = {} THEN None ELSE Some(Min(found))

find_cached_entry(c, text_hash) ==
    LET found == {i \in 0..(c.SIZE - 1) :
                    c.entries[i].text_hash = text_hash /\ c.entries[i].buffer # None}
    IN  IF found = {} THEN None ELSE Some(Min(found))

\* as find_replacement_slot, with the cursor left where it was
find_replacement_slot_stuck(c) == [index |-> c.next_index % c.SIZE, cache |-> c]

\* as find_replacement_slot, but the first empty slot is taken when there is one
find_replacement_slot_first_empty(c) ==
    LET empty == {i \in 0..(c.SIZE - 1) : c.entries[i].buffer = None}
    IN  [index |-> IF empty # {} THEN Min(empty) ELSE c.next_index % c.SIZE,
         cache |-> [c EXCEPT !.next_index = c.next_index + 1]]

\* as find_replacement_slot, without the wraparound
find_replacement_slot_unwrapped(c) ==
    [index |-> c.next_index, cache |-> [c EXCEPT !.next_index = c.next_index + 1]]

\* fetch_add(1) % SIZE: the slot, and the cache with the cursor advanced
find_replacement_slot(c) ==
    [index |-> c.next_index % c.SIZE,
     cache |-> [c EXCEPT !.next_index = c.next_index + 1]]

\* as update_access_stats, without the store to last_used
update_access_stats_count_only(c, index, frame) ==
    [c EXCEPT !.entries[index].hit_count = c.entries[index].hit_count + 1]

update_access_stats(c, index, frame) ==
    [c EXCEPT !.entries[index].last_used = frame,
              !.entries[index].hit_count = c.entries[index].hit_count + 1]

\* as get_buffer, reading the slot after the one asked for
get_buffer_next_slot(c, cache_index) ==
    IF cache_index + 1 \in 0..(c.SIZE - 1) THEN c.entries[cache_index + 1].buffer ELSE None

\* as get_buffer, with the index wrapped into the array
get_buffer_wrapping(c, cache_index) == c.entries[cache_index % c.SIZE].buffer

get_buffer(c, cache_index) ==
    IF cache_index \in 0..(c.SIZE - 1) THEN c.entries[cache_index].buffer ELSE None

\* as new_entry, with the entry's hit counter left at its default
new_entry_zero_count(text_hash, text, frame) ==
    [text_hash |-> text_hash, buffer |-> Some(Shape(text)), last_used |-> frame,
     hit_count |-> 0]

\* the ShapeCacheEntry a miss stores
new_entry(text_hash, text, frame) ==
    [text_hash |-> text_hash, buffer |-> Some(Shape(text)), last_used |-> frame,
     hit_count |-> 1]

\* as get_or_create, a miss leaving the miss counter as it was
get_or_create_miss_uncounted(c, text, frame) ==
    LET text_hash == text_hash_of(text)
        cached == find_cached_entry(c, text_hash)
    IN  IF cached # None
        THEN LET index == cached[1]
                 c1 == update_access_stats(c, index, frame)
                 c2 == [c1 EXCEPT !.hit_count = c1.hit_count + 1]
             IN  [cache |-> c2, index |-> index, buffer |-> c2.entries[index].buffer,
                  hit |-> TRUE]
        ELSE LET slot == find_replacement_slot(c)
                 c2 == [slot.cache EXCEPT
                          !.entries[slot.index] = new_entry(text_hash, text, frame)]
             IN  [cache |-> c2, index |-> slot.index,
                  buffer |-> c2.entries[slot.index].buffer, hit |-> FALSE]

\* the result of get_or_create: the cache after the call, the returned slot
\* index, the borrowed buffer, and whether the lookup hit
get_or_create(c, text, frame) ==
    LET text_hash == text_hash_of(text)
        cached == find_cached_entry(c, text_hash)
    IN  IF cached # None
        THEN LET index == cached[1]
                 c1 == update_access_stats(c, index, frame)
                 c2 == [c1 EXCEPT !.hit_count = c1.hit_count + 1]
             IN  [cache |-> c2, index |-> index, buffer |-> c2.entries[index].buffer,
                  hit |-> TRUE]
        ELSE LET c1 == [c EXCEPT !.miss_count = c.miss_count + 1]
                 slot == find_replacement_slot(c1)
                 c2 == [slot.cache EXCEPT
                          !.entries[slot.index] = new_entry(text_hash, text, frame)]
             IN  [cache |-> c2, index |-> slot.index,
                  buffer |-> c2.entries[slot.index].buffer, hit |-> FALSE]

\* as get_or_create_hashed, a slot counting as found only when its payload
\* was shaped from the same text
get_or_create_hashed_same_text(c, text_hash, text, frame) ==
    LET cached == find_cached_entry(c, text_hash)
        same == cached # None /\ c.entries[cached[1]].buffer = Some(Shape(text))
    IN  IF same
        THEN LET index == cached[1]
                 c1 == update_access_stats(c, index, frame)
                 c2 == [c1 EXCEPT !.hit_count = c1.hit_count + 1]
             IN  [cache |-> c2, index |-> index, buffer |-> c2.entries[index].buffer,
                  hit |-> TRUE]
        ELSE LET c1 == [c EXCEPT !.miss_count = c.miss_count + 1]
                 slot == find_replacement_slot(c1)
                 c2 == [slot.cache EXCEPT
                          !.entries[slot.index] = new_entry(text_hash, text, frame)]
             IN  [cache |-> c2, index |-> slot.index,
                  buffer |-> c2.entries[slot.index].buffer, hit |-> FALSE]

\* get_or_create after its first line, which computed text_hash from the text
get_or_create_hashed(c, text_hash, text, frame) ==
    LET cached == find_cached_entry(c, text_hash)
    IN  IF cached # None
        THEN LET index == cached[1]
                 c1 == update_access_stats(c, index, frame)
                 c2 == [c1 EXCEPT !.hit_count = c1.hit_count + 1]
             IN  [cache |-> c2, index |-> index, buffer |-> c2.entries[index].buffer,
                  hit |-> TRUE]
        ELSE LET c1 == [c EXCEPT !.miss_count = c.miss_count + 1]
                 slot == find_replacement_slot(c1)
                 c2 == [slot.cache EXCEPT
                          !.entries[slot.index] = new_entry(text_hash, text, frame)]
             IN  [cache |-> c2, index |-> slot.index,
                  buffer |-> c2.entries[slot.index].buffer, hit |-> FALSE]

\* get_or_create of glyphon/cache.rs with the Buffer the shaper returned:
\* err names the error returned ("" for Ok, "panic" for an index past the array)
get_or_create_shaped(c, text, frame, shaped) ==
    LET text_hash == text_hash_of(text)
        cached == find_cached_entry(c, text_hash)
    IN  IF cached # None
        THEN LET index == cached[1]
                 c1 == update_access_stats(c, index, frame)
                 c2 == [c1 EXCEPT !.hit_count = c1.hit_count + 1]
             IN  [cache |-> c2, index |-> index, buffer |-> c2.entries[index].buffer,
                  hit |-> TRUE,
                  err |-> IF c2.entries[index].buffer = None THEN "CacheError" ELSE ""]
        ELSE LET c1 == [c EXCEPT !.miss_count = c.miss_count + 1]
                 slot == find_replacement_slot(c1)
                 c2 == [slot.cache EXCEPT
                          !.entries[slot.index] =
                              [new_entry(text_hash, text, frame) EXCEPT !.buffer = Some(shaped)]]
             IN  IF slot.index >= c.SIZE
                 THEN [cache |-> slot.cache, index |-> slot.index, buffer |-> None,
                       hit |-> FALSE, err |-> "panic"]
                 ELSE [cache |-> c2, index |-> slot.index,
                       buffer |-> c2.entries[slot.index].buffer, hit |-> FALSE,
                       err |-> IF c2.entries[slot.index].buffer = None
                               THEN "CacheError" ELSE ""]

\* get_or_create of advanced_text.rs with the Buffer the shaper returned
advanced_get_or_create(c, text, frame, shaped) ==
    LET text_hash == text_hash_of(text)
        cached == find_cached_entry(c, text_hash)
    IN  IF cached # None
        THEN LET index == cached[1]
                 c1 == update_access_stats(c, index, frame)
                 c2 == [c1 EXCEPT !.hit_count = c1.hit_count + 1]
             IN  [cache |-> c2, index |-> index, buffer |-> c2.entries[index].buffer,
                  hit |-> TRUE,
                  err |-> IF c2.entries[index].buffer = None
                          THEN "InvalidCacheIndex" ELSE ""]
        ELSE LET c1 == [c EXCEPT !.miss_count = c.miss_count + 1]
                 slot == find_replacement_slot(c1)
                 c2 == [slot.cache EXCEPT
                          !.entries[slot.index] =
                              [new_entry(text_hash, text, frame) EXCEPT !.buffer = Some(shaped)]]
             IN  IF slot.index >= c.SIZE
                 THEN [cache |-> slot.cache, index |-> slot.index, buffer |-> None,
                       hit |-> FALSE, err |-> "CacheError"]
                 ELSE IF shaped.layout_runs = 0 /\ ~trim_is_empty(text)
                 THEN [cache |-> slot.cache, index |-> slot.index, buffer |-> None,
                       hit |-> FALSE, err |-> "ShapingFailed"]
                 ELSE [cache |-> c2, index |-> slot.index,
                       buffer |-> c2.entries[slot.index].buffer, hit |-> FALSE,
                       err |-> IF c2.entries[slot.index].buffer = None
                               THEN "InvalidCacheIndex" ELSE ""]

entries_used(c) == Cardinality({i \in 0..(c.SIZE - 1) : c.entries[i].buffer # None})

\* as over_utilization, triggering already at the threshold
over_utilization_inclusive(c, num, den) == entries_used(c) * den >= num * c.SIZE

\* utilization() > max_utilization, the threshold given as the fraction num/den
over_utilization(c, num, den) == entries_used(c) * den > num * c.SIZE

saturating_sub(a, b) == IF a > b THEN a - b ELSE 0

\* as InsertByAge, an element going before the elements of its own age
RECURSIVE InsertBeforeTies(_, _)
InsertBeforeTies(sorted, x) ==
    IF sorted = <<>> THEN <<x>>
    ELSE IF sorted[Len(sorted)][2] < x[2] THEN Append(sorted, x)
    ELSE Append(InsertBeforeTies(SubSeq(sorted, 1, Len(sorted) - 1), x), sorted[Len(sorted)])

\* slice::sort_by_key on the age: a stable sort, ascending
RECURSIVE InsertByAge(_, _)
InsertByAge(sorted, x) ==
    IF sorted = <<>> THEN <<x>>
    ELSE IF sorted[Len(sorted)][2] <= x[2] THEN Append(sorted, x)
    ELSE Append(InsertByAge(SubSeq(sorted, 1, Len(sorted) - 1), x), sorted[Len(sorted)])

RECURSIVE SortByAge(_)
SortByAge(s) ==
    IF s = <<>> THEN <<>>
    ELSE InsertByAge(SortByAge(SubSeq(s, 1, Len(s) - 1)), s[Len(s)])

\* the occupied slots in index order, each with its age
RECURSIVE lru_indices(_, _, _)
lru_indices(c, current_frame, i) ==
    IF i >= c.SIZE THEN <<>>
    ELSE (IF c.entries[i].buffer # None
          THEN << <<i, saturating_sub(current_frame, c.entries[i].last_used)>> >>
          ELSE <<>>)
         \o lru_indices(c, current_frame, i + 1)

Take(s, n) == SubSeq(s, 1, IF n < Len(s) THEN n ELSE Len(s))

\* the slots evict_lru_entries resets
evicted_indices(c, current_frame, evict_count) ==
    LET chosen == Take(SortByAge(lru_indices(c, current_frame, 0)), evict_count)
    IN  {chosen[k][1] : k \in 1..Len(chosen)}

evict_lru_entries(c, current_frame, evict_count) ==
    LET gone == evicted_indices(c, current_frame, evict_count)
    IN  [c EXCEPT !.entries = [i \in 0..(c.SIZE - 1) |->
                                 IF i \in gone THEN EmptyEntry ELSE c.entries[i]]]

\* as stats, reporting the misses as the slots in use
stats_misses_as_used(c) ==
    [capacity |-> c.SIZE, entries_used |-> c.miss_count, hit_count |-> c.hit_count,
     miss_count |-> c.miss_count,
     hit_rate |-> IF c.hit_count + c.miss_count > 0
                  THEN <<c.hit_count, c.hit_count + c.miss_count>> ELSE <<0, 1>>]

\* as stats, dividing also when no lookup has happened
stats_unguarded_rate(c) ==
    [capacity |-> c.SIZE, entries_used |-> entries_used(c), hit_count |-> c.hit_count,
     miss_count |-> c.miss_count,
     hit_rate |-> <<c.hit_count, c.hit_count + c.miss_count>>]

\* CacheStats; hit_rate is the fraction <<numerator, denominator>>
stats(c) ==
    [capacity |-> c.SIZE, entries_used |-> entries_used(c), hit_count |-> c.hit_count,
     miss_count |-> c.miss_count,
     hit_rate |-> IF c.hit_count + c.miss_count > 0
                  THEN <<c.hit_count, c.hit_count + c.miss_count>> ELSE <<0, 1>>]

\* advanced_text.rs: the occupied slots in index order, each with its last_used
RECURSIVE advanced_lru_indices(_, _)
advanced_lru_indices(c, i) ==
    IF i >= c.SIZE THEN <<>>
    ELSE (IF c.entries[i].buffer # None
          THEN << <<i, c.entries[i].last_used>> >>
          ELSE <<>>)
         \o advanced_lru_indices(c, i + 1)

\* evict_lru_entries of advanced_text.rs: sorted by last_used, oldest first
advanced_evict_lru_entries(c, current_frame, evict_count) ==
    LET chosen == Take(SortByAge(advanced_lru_indices(c, 0)), evict_count)
        gone == {chosen[k][1] : k \in 1..Len(chosen)}
    IN  [c EXCEPT !.entries = [i \in 0..(c.SIZE - 1) |->
                                 IF i \in gone THEN EmptyEntry ELSE c.entries[i]]]

\* evict_lru_if_needed of advanced_text.rs
advanced_evict_lru_if_needed(c, num, den, current_frame) ==
    IF entries_used(c) * den > num * c.SIZE
    THEN advanced_evict_lru_entries(c, current_frame, c.SIZE \div 4)
    ELSE c

\* as evict_lru_if_needed, evicting a quarter of the occupied slots
evict_lru_if_needed_quarter_of_used(c, num, den, current_frame) ==
    IF over_utilization(c, num, den)
    THEN evict_lru_entries(c, current_frame, entries_used(c) \div 4)
    ELSE c

evict_lru_if_needed(c, num, den, current_frame) ==
    IF over_utilization(c, num, den)
    THEN evict_lru_entries(c, current_frame, c.SIZE \div 4)
    ELSE c

(***************************************************************************)
(* ZeroAllocTextAreaPool<CAPACITY>                                         *)
(***************************************************************************)
MAX_AGE_FRAMES == 180

CLEANUP_INTERVAL_FRAMES == 60

\* ZeroAllocTextAreaPool::<capacity>::new(); the const generic is kept in CAPACITY
NewTextAreaPool(capacity) ==
    [CAPACITY |-> capacity, areas |-> [i \in 0..(capacity - 1) |-> None],
     active_count |-> 0, frame_counter |-> 0]

\* SafeTextArea::new
SafeTextArea(buffer_cache_index, text_hash, left, top, scale, bounds, default_color, created_frame) ==
    [buffer_cache_index |-> buffer_cache_index, text_hash |-> text_hash,
     left |-> left, top |-> top, scale |-> scale, bounds |-> bounds,
     default_color |-> default_color, created_frame |-> created_frame,
     last_access_frame |-> created_frame]

\* as is_stale, an age of max_age counting as stale
is_stale_at_max_age(area, current_frame, max_age) ==
    saturating_sub(current_frame, area.last_access_frame) >= max_age

is_stale(area, current_frame, max_age) ==
    saturating_sub(current_frame, area.last_access_frame) > max_age

\* the compaction loop from read_idx on; write_idx is the next free place
RECURSIVE cleanup_from(_, _, _, _)
cleanup_from(areas, read_idx, write_idx, current_frame) ==
    IF read_idx \notin DOMAIN areas THEN areas
    ELSE IF areas[read_idx] = None
         THEN cleanup_from(areas, read_idx + 1, write_idx, current_frame)
    ELSE IF is_stale(areas[read_idx][1], current_frame, MAX_AGE_FRAMES)
         THEN cleanup_from([areas EXCEPT ![read_idx] = None],
                           read_idx + 1, write_idx, current_frame)
    ELSE IF write_idx # read_idx
         THEN cleanup_from([areas EXCEPT ![write_idx] = areas[read_idx], ![read_idx] = None],
                           read_idx + 1, write_idx + 1, current_frame)
    ELSE cleanup_from(areas, read_idx + 1, write_idx + 1, current_frame)

cleanup_stale_areas(pool, current_frame) ==
    [pool EXCEPT !.areas = cleanup_from(pool.areas, 0, 0, current_frame)]

\* as reset, without the store that clears the active counter
reset_keep_count(pool) ==
    LET frame == pool.frame_counter
        bumped == [pool EXCEPT !.frame_counter = frame + 1]
    IN  IF frame % CLEANUP_INTERVAL_FRAMES = 0
        THEN cleanup_stale_areas(bumped, frame)
        ELSE bumped

\* ZeroAllocTextAreaPool::reset
reset(pool) ==
    LET frame == pool.frame_counter
        bumped == [pool EXCEPT !.frame_counter = frame + 1]
        cleaned == IF frame % CLEANUP_INTERVAL_FRAMES = 0
                   THEN cleanup_stale_areas(bumped, frame)
                   ELSE bumped
    IN  [cleaned EXCEPT !.active_count = 0]

\* as add_area, refusing only above the capacity
add_area_one_more(pool, buffer_cache_index, text_hash, left, top, scale, bounds, default_color) ==
    IF pool.active_count > pool.CAPACITY
    THEN [pool |-> pool, ok |-> FALSE]
    ELSE [pool |-> [pool EXCEPT
                      !.areas = [i \in DOMAIN pool.areas \cup {pool.active_count} |->
                                   IF i = pool.active_count
                                   THEN Some(SafeTextArea(buffer_cache_index, text_hash, left,
                                                          top, scale, bounds, default_color,
                                                          pool.frame_counter))
                                   ELSE pool.areas[i]],
                      !.active_count = pool.active_count + 1],
          ok |-> TRUE]

\* the pool after add_area, and whether it returned Ok
add_area(pool, buffer_cache_index, text_hash, left, top, scale, bounds, default_color) ==
    IF pool.active_count >= pool.CAPACITY
    THEN [pool |-> pool, ok |-> FALSE]
    ELSE [pool |-> [pool EXCEPT
                      !.areas[pool.active_count] =
                          Some(SafeTextArea(buffer_cache_index, text_hash, left, top, scale,
                                            bounds, default_color, pool.frame_counter)),
                      !.active_count = pool.active_count + 1],
          ok |-> TRUE]

RECURSIVE iter_from(_, _, _)
iter_from(areas, i, end) ==
    IF i >= end THEN <<>> ELSE areas[i] \o iter_from(areas, i + 1, end)

\* as iter_active, over every slot of the array
iter_active_all_slots(pool) == iter_from(pool.areas, 0, pool.CAPACITY)

\* the Some entries among the first min(active_count, CAPACITY), in order
iter_active(pool) ==
    iter_from(pool.areas, 0,
              IF pool.active_count < pool.CAPACITY THEN pool.active_count ELSE pool.CAPACITY)

len(pool) == pool.active_count

is_empty(pool) == pool.active_count = 0

\* len() / CAPACITY, as the pair <<numerator, denominator>>
utilization(pool) == <<len(pool), pool.CAPACITY>>

(***************************************************************************)
(* Cell and CellGrid<COLS, ROWS>                                           *)
(***************************************************************************)
\* Cell::default(): a space in the default colours
DefaultCell == [character |-> 32, foreground |-> 7]

NewCellGrid ==
    [cells |-> [r \in 0..(ROWS - 1) |-> [col \in 0..(COLS - 1) |-> DefaultCell]],
     dirty_rows |-> [r \in 0..(ROWS - 1) |-> FALSE],
     change_count |-> 0]

\* CellGrid::set_cell(col, row, cell)
grid_set_cell(grid, col, row, cell) ==
    IF col < COLS /\ row < ROWS
    THEN [grid EXCEPT !.cells[row][col] = cell,
                      !.dirty_rows[row] = TRUE,
                      !.change_count = grid.change_count + 1]
    ELSE grid

\* CellGrid::get_cell_mut(col, row), the caller storing cell through the
\* reference it gets
get_cell_mut(grid, col, row, cell) ==
    IF col < COLS /\ row < ROWS
    THEN [grid EXCEPT !.dirty_rows[row] = TRUE,
                      !.change_count = grid.change_count + 1,
                      !.cells[row][col] = cell]
    ELSE grid

\* CellGrid::get_row_mut(row), the caller storing cell at column col of the
\* row it gets
get_row_mut(grid, row, col, cell) ==
    IF row < ROWS
    THEN [grid EXCEPT !.dirty_rows[row] = TRUE,
                      !.change_count = grid.change_count + 1,
                      !.cells[row][col] = cell]
    ELSE grid

mark_row_dirty(grid, row) ==
    IF row < ROWS
    THEN [grid EXCEPT !.dirty_rows[row] = TRUE, !.change_count = grid.change_count + 1]
    ELSE grid

clear(grid) ==
    [grid EXCEPT !.cells = [r \in 0..(ROWS - 1) |-> [col \in 0..(COLS - 1) |-> DefaultCell]],
                 !.dirty_rows = [r \in 0..(ROWS - 1) |-> TRUE],
                 !.change_count = grid.change_count + 1]

fill(grid, cell) ==
    [grid EXCEPT !.cells = [r \in 0..(ROWS - 1) |-> [col \in 0..(COLS - 1) |-> cell]],
                 !.dirty_rows = [r \in 0..(ROWS - 1) |-> TRUE],
                 !.change_count = grid.change_count + 1]

clear_row(grid, row) ==
    IF row < ROWS
    THEN [grid EXCEPT !.cells[row] = [col \in 0..(COLS - 1) |-> DefaultCell],
                      !.dirty_rows[row] = TRUE,
                      !.change_count = grid.change_count + 1]
    ELSE grid

copy_row(grid, src_row, dst_row) ==
    IF src_row < ROWS /\ dst_row < ROWS /\ src_row # dst_row
    THEN [grid EXCEPT !.cells[dst_row] = grid.cells[src_row],
                      !.dirty_rows[dst_row] = TRUE,
                      !.change_count = grid.change_count + 1]
    ELSE grid

scroll_up(grid, n) ==
    IF n = 0 \/ n >= ROWS THEN grid
    ELSE [grid EXCEPT
            !.cells = [r \in 0..(ROWS - 1) |->
                         IF r < ROWS - n THEN grid.cells[r + n]
                         ELSE [col \in 0..(COLS - 1) |-> DefaultCell]],
            !.dirty_rows = [r \in 0..(ROWS - 1) |-> TRUE],
            !.change_count = grid.change_count + 1]

\* as scroll_down, marking only the rows it cleared
scroll_down_cleared_only(grid, n) ==
    IF n = 0 \/ n >= ROWS THEN grid
    ELSE [grid EXCEPT
            !.cells = [r \in 0..(ROWS - 1) |->
                         IF r >= n THEN grid.cells[r - n]
                         ELSE [col \in 0..(COLS - 1) |-> DefaultCell]],
            !.dirty_rows = [r \in 0..(ROWS - 1) |-> grid.dirty_rows[r] \/ r < n],
            !.change_count = grid.change_count + 1]

scroll_down(grid, n) ==
    IF n = 0 \/ n >= ROWS THEN grid
    ELSE [grid EXCEPT
            !.cells = [r \in 0..(ROWS - 1) |->
                         IF r >= n THEN grid.cells[r - n]
                         ELSE [col \in 0..(COLS - 1) |-> DefaultCell]],
            !.dirty_rows = [r \in 0..(ROWS - 1) |-> TRUE],
            !.change_count = grid.change_count + 1]

\* as clear_dirty_flags, leaving the flag of the last row
clear_dirty_flags_keep_last(grid) ==
    [grid EXCEPT !.dirty_rows = [r \in 0..(ROWS - 1) |-> r = ROWS - 1 /\ grid.dirty_rows[r]]]

clear_dirty_flags(grid) == [grid EXCEPT !.dirty_rows = [r \in 0..(ROWS - 1) |-> FALSE]]

\* the indices dirty_rows_iter yields, ascending, from row r on
RECURSIVE dirty_rows_iter(_, _)
dirty_rows_iter(grid, r) ==
    IF r >= ROWS THEN <<>>
    ELSE (IF grid.dirty_rows[r] THEN <<r>> ELSE <<>>) \o dirty_rows_iter(grid, r + 1)

(***************************************************************************)
(* ZeroAllocTextRenderer and TextRenderConfig                              *)
(***************************************************************************)
\* one past the last cell that is not a space, 0 when there is none
find_last_non_space_simd_friendly(row_cells) ==
    LET filled == {i \in 0..(COLS - 1) : row_cells[i].character # 32}
    IN  IF filled = {} THEN 0 ELSE (CHOOSE i \in filled : \A j \in filled : j <= i) + 1

\* ColorPalette::get_glyph_color: the colour of a palette index
get_glyph_color(index) == [palette |-> index]

build_row_text_with_color(row_cells) ==
    LET last_non_space == find_last_non_space_simd_friendly(row_cells)
        visible == {i \in 0..(last_non_space - 1) : row_cells[i].character # 32}
    IN  IF last_non_space = 0
        THEN [text |-> <<>>, color |-> get_glyph_color(7)]
        ELSE [text |-> [k \in 1..last_non_space |-> row_cells[k - 1].character],
              color |-> IF visible = {} THEN get_glyph_color(7)
                        ELSE get_glyph_color(row_cells[Min(visible)].foreground)]

row_y_position(row) == row * LineHeightScaled

row_bounds(row) ==
    [left |-> 0, top |-> row_y_position(row), right |-> SurfaceWidth,
     bottom |-> row_y_position(row) + LineHeightScaled]

\* RowData::from_cells
from_cells(row_cells, row_idx) ==
    LET built == build_row_text_with_color(row_cells)
    IN  [text |-> built.text, bounds |-> row_bounds(row_idx),
         y_position |-> row_y_position(row_idx), default_color |-> built.color]

\* the loop body for a row with text: get_or_create, then add_area with
\* the slot it returned; the result of add_area is ignored
shape_row(c, pool, row_data, frame) ==
    CHOOSE out \in
        {[cache |-> r.cache,
          pool |-> add_area(pool, r.index, text_hash_of(row_data.text), 0,
                            row_data.y_position, 1, row_data.bounds,
                            row_data.default_color).pool]
           : r \in {get_or_create(c, row_data.text, frame)}} : TRUE

\* as process_rows, shaping the rows without text as well
RECURSIVE process_rows_no_skip(_, _, _, _, _)
process_rows_no_skip(rows, grid, c, pool, frame) ==
    IF rows = <<>> THEN [cache |-> c, pool |-> pool]
    ELSE CHOOSE out \in
             {process_rows_no_skip(Tail(rows), grid, s.cache, s.pool, frame)
                : s \in {shape_row(c, pool, from_cells(grid.cells[Head(rows)], Head(rows)),
                                   frame)}} : TRUE

\* the loop of create_text_areas_for_dirty_rows_fallback over the rows left
RECURSIVE process_rows(_, _, _, _, _)
process_rows(rows, grid, c, pool, frame) ==
    IF rows = <<>> THEN [cache |-> c, pool |-> pool]
    ELSE LET row_idx == Head(rows)
             row_data == from_cells(grid.cells[row_idx], row_idx)
         IN  IF row_data.text = <<>>
             THEN process_rows(Tail(rows), grid, c, pool, frame)
             ELSE CHOOSE out \in
                      {process_rows(Tail(rows), grid, s.cache, s.pool, frame)
                         : s \in {shape_row(c, pool, row_data, frame)}} : TRUE

\* as create_text_area_for_row, handing add_area the cache's cursor instead
\* of the slot get_or_create returned
create_text_area_for_row_cursor(row, cells, c, pool, frame) ==
    LET row_data == from_cells(cells, row)
    IN  IF row_data.text = <<>>
        THEN [cache |-> c, pool |-> pool, result |-> "Ok", index |-> None]
        ELSE CHOOSE out \in
                 {[cache |-> r.cache,
                   pool |-> a.pool,
                   result |-> IF a.ok THEN "Ok" ELSE "CapacityExceeded",
                   index |-> Some(r.index)]
                    : <<r, a>> \in
                        {<<g, add_area(pool, g.cache.next_index, text_hash_of(row_data.text),
                                       0, row_data.y_position, 1, row_data.bounds,
                                       row_data.default_color)>>
                           : g \in {get_or_create(c, row_data.text, frame)}}} : TRUE

\* create_text_area_for_row: index is the slot get_or_create returned, None
\* when the row has no text and nothing is done
create_text_area_for_row(row, cells, c, pool, frame) ==
    LET row_data == from_cells(cells, row)
    IN  IF row_data.text = <<>>
        THEN [cache |-> c, pool |-> pool, result |-> "Ok", index |-> None]
        ELSE CHOOSE out \in
                 {[cache |-> r.cache,
                   pool |-> a.pool,
                   result |-> IF a.ok THEN "Ok" ELSE "CapacityExceeded",
                   index |-> Some(r.index)]
                    : <<r, a>> \in
                        {<<g, add_area(pool, g.index, text_hash_of(row_data.text),
                                       0, row_data.y_position, 1, row_data.bounds,
                                       row_data.default_color)>>
                           : g \in {get_or_create(c, row_data.text, frame)}}} : TRUE

create_text_areas_for_dirty_rows_fallback(grid, c, pool, frame) ==
    process_rows(dirty_rows_iter(grid, 0), grid, c, reset(pool), frame)

(***************************************************************************)
(* GlyphonTextureRenderer<COLS, ROWS>                                      *)
(***************************************************************************)
\* the frames between two atlas trims
ATLAS_TRIM_INTERVAL_FRAMES == 60

EVICT_INTERVAL_FRAMES == 300

\* the dirty rows of the grid as a set
dirty_rows(grid) == {r \in 0..(ROWS - 1) : grid.dirty_rows[r]}

\* the dirty rows whose text is empty, which the loop skips
skipped_rows(grid) ==
    {r \in dirty_rows(grid) : from_cells(grid.cells[r], r).text = <<>>}

\* the heap allocations of a Vec grown by push to n elements: none while it
\* is empty, the first for 4 elements, then one for each doubling
RECURSIVE vec_doublings(_, _)
vec_doublings(capacity, n) ==
    IF capacity >= n THEN 0 ELSE 1 + vec_doublings(2 * capacity, n)

grown_vec_allocations(n) == IF n = 0 THEN 0 ELSE 1 + vec_doublings(4, n)

\* String::new() for a row without text, String::with_capacity(n) otherwise
string_allocations(row_cells) ==
    IF find_last_non_space_simd_friendly(row_cells) = 0 THEN 0 ELSE 1

\* the Vec evict_lru_entries collects the occupied slots into
evict_lru_entries_allocations(c) == grown_vec_allocations(entries_used(c))

\* the heap allocations of one render_to_texture, those of shaping a missed
\* text left out: the String of each dirty row, the Vec buffer_indices
\* collected from the pool's iterator, Vec::with_capacity for glyphon_areas,
\* and the Vec of the sweep when it runs and evicts
frame_allocations(grid, pool, c, swept) ==
    Cardinality({r \in dirty_rows(grid) : string_allocations(grid.cells[r]) = 1})
    + grown_vec_allocations(len(pool))
    + (IF len(pool) > 0 THEN 1 ELSE 0)
    + (IF swept /\ over_utilization(c, 4, 5) THEN evict_lru_entries_allocations(c) ELSE 0)

\* the dirty rows with text for which the pool holds no descriptor after the
\* loop: add_area returned CapacityExceeded and the loop ignored it
dropped_rows(grid, pool) ==
    {r \in dirty_rows(grid) \ skipped_rows(grid) :
       \A k \in 1..Len(iter_active(pool)) : iter_active(pool)[k].top # row_y_position(r)}

\* GlyphonTextureRenderer::set_cell(row, col, cell)
set_cell(grid, row, col, cell) ==
    IF row < ROWS /\ col < COLS THEN grid_set_cell(grid, row, col, cell) ELSE grid

\* the descriptors whose slot holds a buffer, each with the buffer it resolves to
RECURSIVE resolve(_, _)
resolve(areas, c) ==
    IF areas = <<>> THEN <<>>
    ELSE LET buffer == get_buffer(c, Head(areas).buffer_cache_index)
         IN  (IF buffer # None THEN <<[area |-> Head(areas), buffer |-> buffer[1]]>>
              ELSE <<>>)
             \o resolve(Tail(areas), c)

\* as render_to_texture, clearing the dirty flags of a frame that failed too
render_to_texture_always_clears(grid, c, pool, frame, drawn) ==
    CHOOSE out \in {
    LET frame1 == frame + 1
        glyphon_areas == resolve(iter_active(built.pool), built.cache)
        ok == drawn \/ glyphon_areas = <<>>
    IN  [frame_count |-> frame1,
         text_area_pool |-> built.pool,
         shape_cache |-> IF ok /\ frame1 % EVICT_INTERVAL_FRAMES = 0
                         THEN evict_lru_if_needed(built.cache, 4, 5, frame1)
                         ELSE built.cache,
         cell_grid |-> clear_dirty_flags(grid),
         glyphon_areas |-> glyphon_areas,
         resolved_from |-> built.cache,
         evict_args |-> IF ok /\ frame1 % EVICT_INTERVAL_FRAMES = 0
                        THEN <<4, 5, frame1>> ELSE <<>>,
         ok |-> ok]
    : built \in {create_text_areas_for_dirty_rows_fallback(grid, c, pool, frame + 1)}} : TRUE

\* as render_to_texture, with the LRU sweep run before the descriptors are resolved
render_to_texture_sweep_first(grid, c, pool, frame, drawn) ==
    CHOOSE out \in {
    LET frame1 == frame + 1
        swept == IF frame1 % EVICT_INTERVAL_FRAMES = 0
                 THEN evict_lru_if_needed(built.cache, 4, 5, frame1)
                 ELSE built.cache
        glyphon_areas == resolve(iter_active(built.pool), swept)
        ok == drawn \/ glyphon_areas = <<>>
    IN  [frame_count |-> frame1,
         text_area_pool |-> built.pool,
         shape_cache |-> swept,
         cell_grid |-> IF ok THEN clear_dirty_flags(grid) ELSE grid,
         glyphon_areas |-> glyphon_areas,
         resolved_from |-> built.cache,
         evict_args |-> IF ok /\ frame1 % EVICT_INTERVAL_FRAMES = 0
                        THEN <<4, 5, frame1>> ELSE <<>>,
         ok |-> ok]
    : built \in {create_text_areas_for_dirty_rows_fallback(grid, c, pool, frame + 1)}} : TRUE

\* render_to_texture; drawn is whether prepare and render succeed
render_to_texture(grid, c, pool, frame, drawn) ==
    CHOOSE out \in {
    LET frame1 == frame + 1
        glyphon_areas == resolve(iter_active(built.pool), built.cache)
        ok == drawn \/ glyphon_areas = <<>>
    IN  [frame_count |-> frame1,
         text_area_pool |-> built.pool,
         shape_cache |-> IF ok /\ frame1 % EVICT_INTERVAL_FRAMES = 0
                         THEN evict_lru_if_needed(built.cache, 4, 5, frame1)
                         ELSE built.cache,
         cell_grid |-> IF ok THEN clear_dirty_flags(grid) ELSE grid,
         glyphon_areas |-> glyphon_areas,
         resolved_from |-> built.cache,
         evict_args |-> IF ok /\ frame1 % EVICT_INTERVAL_FRAMES = 0
                        THEN <<4, 5, frame1>> ELSE <<>>,
         ok |-> ok]
    : built \in {create_text_areas_for_dirty_rows_fallback(grid, c, pool, frame + 1)}} : TRUE

(***************************************************************************)
(* What the last operation was and what it returned; what get_or_create    *)
(* last wrote to each slot, how many sweeps have evicted something, and  *)
(* how many texts, grid changes and frames the run has used.               *)
(***************************************************************************)
Observed(kind, text, frame, index, buffer, evicted, areas) ==
    [kind |-> kind, text |-> text, frame |-> frame, index |-> index,
     buffer |-> buffer, evicted |-> evicted, areas |-> areas]

NewHistory(size) ==
    [written |-> [i \in 0..(size - 1) |-> None], sweeps |-> 0, seen |-> 0,
     changes |-> 0, renders |-> 0, added |-> <<>>, adds |-> 0, resets |-> 0,
     copy |-> "glyphon", shaped |-> None, dropped |-> {}, skipped |-> {},
     hashed |-> [text \in HashTexts |-> None],
     writer |-> [pc |-> "idle", text |-> <<>>, frame |-> 0, index |-> 0],
     snapshot |-> None, earlier |-> None, lookups |-> 0, allocations |-> 0,
     targeted |-> {}, calls |-> 0, twin |-> NewShapeCache(size)]

(***************************************************************************)
(* The cache driven through its public operations                          *)
(***************************************************************************)
\* a cache of SIZE slots, or one twice as large
Init ==
    /\ \E size \in {SIZE, 2 * SIZE} :
         /\ shape_cache = NewShapeCache(size)
         /\ history = NewHistory(size)
    /\ text_area_pool = NewTextAreaPool(TEXT_AREA_POOL_SIZE)
    /\ cell_grid = NewCellGrid
    /\ frame_count = 0
    /\ op = Observed("new", <<>>, 0, None, None, {}, <<>>)

\* the frames a caller may pass next: its frame counter never goes back
Frames == {f \in {frame_count, frame_count + 1} : f <= MaxFrame}

\* max_utilization: 0.1, 0.25 and the callers' 0.8
Thresholds == {<<1, 10>>, <<1, 4>>, <<4, 5>>}

\* texts are first requested in alphabetical order ("a" before "b" ...)
Requestable == {text \in Texts : text[1] - 96 <= history.seen + 1}

GetOrCreate ==
    /\ shape_cache.hit_count + shape_cache.miss_count < MaxCalls
    /\ \E text \in Requestable, frame \in Frames :
         \E r \in {get_or_create(shape_cache, text, frame)} :
             /\ shape_cache' = r.cache
             /\ frame_count' = frame
             /\ op' = Observed(IF r.hit THEN "hit" ELSE "miss", text, frame,
                               Some(r.index), r.buffer, {}, <<>>)
             /\ history' = [history EXCEPT
                              !.written[r.index] = IF r.hit THEN @ ELSE Some(text),
                              !.seen = IF text[1] - 96 > @ THEN text[1] - 96 ELSE @,
                              !.lookups = @ + 1]
    /\ UNCHANGED <<text_area_pool, cell_grid>>

EvictLruIfNeeded ==
    /\ \E th \in Thresholds :
         \E c \in {evict_lru_if_needed(shape_cache, th[1], th[2], frame_count)} :
         LET gone == {i \in 0..(c.SIZE - 1) :
                        shape_cache.entries[i].buffer # None /\ c.entries[i].buffer = None}
         IN  /\ shape_cache' = c
             /\ op' = Observed(IF over_utilization(shape_cache, th[1], th[2])
                               THEN "evict" ELSE "keep", <<th[1], th[2]>>, frame_count,
                               None, None, gone, <<>>)
             /\ gone # {} => history.sweeps < MaxSweeps
             /\ history' = [history EXCEPT !.sweeps = IF gone # {} THEN @ + 1 ELSE @]
    /\ UNCHANGED <<text_area_pool, cell_grid, frame_count>>

Next == GetOrCreate \/ EvictLruIfNeeded

Spec == Init /\ [][Next]_vars

\* the indices a caller passes to get_buffer: the first and last slot, and
\* the first two past the array
Indices == {0, shape_cache.SIZE - 1, shape_cache.SIZE, shape_cache.SIZE + 1}

GetBuffer ==
    /\ \E cache_index \in Indices :
         op' = Observed("get_buffer", <<>>, frame_count, Some(cache_index),
                        get_buffer(shape_cache, cache_index), {}, <<>>)
    /\ UNCHANGED <<shape_cache, text_area_pool, cell_grid, frame_count, history>>

Stats ==
    /\ op' = Observed("stats", <<>>, frame_count, None, Some(stats(shape_cache)), {}, <<>>)
    /\ UNCHANGED <<shape_cache, text_area_pool, cell_grid, frame_count, history>>

NextRead == GetOrCreate \/ EvictLruIfNeeded \/ GetBuffer \/ Stats

\* the cache with its read accessors
SpecRead == Init /\ [][NextRead]_vars

(***************************************************************************)
(* The renderer driven through set_cell and render_to_texture.  It starts  *)
(* freshly constructed, or after the two frames of Warmed, which leave its *)
(* cache full with the cursor back at slot 0.                              *)
(***************************************************************************)
Cell(character) == [character |-> character, foreground |-> 7]

Renderer(grid, c, pool, frame) ==
    [cell_grid |-> grid, shape_cache |-> c, text_area_pool |-> pool, frame_count |-> frame]

Fresh ==
    Renderer(NewCellGrid, NewShapeCache(SHAPE_CACHE_SIZE),
             NewTextAreaPool(TEXT_AREA_POOL_SIZE), 0)

\* set_cell twice, then a frame that draws
Frame2(r, row1, col1, ch1, row2, col2, ch2) ==
    CHOOSE out \in
        {render_to_texture(
             set_cell(set_cell(before.cell_grid, row1, col1, Cell(ch1)),
                      row2, col2, Cell(ch2)),
             before.shape_cache, before.text_area_pool, before.frame_count, TRUE)
           : before \in {r}} : TRUE

\* rows "a", "b" in the first frame, rows "aa", "ba" in the second
Warmed == Frame2(Frame2(Fresh, 0, 0, 97, 0, 1, 98), 1, 0, 97, 1, 1, 97)

\* n more frames in which no cell changes
RECURSIVE Idled(_, _)
Idled(r, n) ==
    IF n = 0 THEN r
    ELSE IF n = 1
    THEN CHOOSE out \in
             {[cell_grid |-> f.cell_grid, shape_cache |-> f.shape_cache,
               text_area_pool |-> f.text_area_pool, frame_count |-> f.frame_count]
                : f \in {render_to_texture(r.cell_grid, r.shape_cache, r.text_area_pool,
                                           r.frame_count, TRUE)}} : TRUE
    ELSE CHOOSE out \in {Idled(h, n - (n \div 2)) : h \in {Idled(r, n \div 2)}} : TRUE

\* the renderer one frame before the atlas trim and before the cache sweep
BeforeTrim == Idled(Warmed, 57)

BeforeSweep == Idled(Warmed, 297)

InitFrame ==
    /\ \E r \in {Fresh, Warmed, BeforeTrim, BeforeSweep} :
         /\ shape_cache = r.shape_cache
         /\ text_area_pool = r.text_area_pool
         /\ cell_grid = r.cell_grid
         /\ frame_count = r.frame_count
    /\ op = Observed("new", <<>>, 0, None, None, {}, <<>>)
    /\ history = NewHistory(SHAPE_CACHE_SIZE)

\* the palette indices a cell may carry
Foregrounds == {7}

SetCell ==
    /\ history.changes < MaxChanges
    /\ \E row \in 0..(ROWS - 1), col \in 0..(COLS - 1), character \in Chars,
          foreground \in Foregrounds :
         /\ cell_grid' = set_cell(cell_grid, row, col,
                                  [character |-> character, foreground |-> foreground])
         /\ op' = Observed("set_cell", <<character>>, frame_count, Some(row), Some(col),
                           {}, <<>>)
    /\ history' = [history EXCEPT
                     !.changes = @ + 1,
                     !.dropped = {r \in @ : /\ cell_grid'.cells[r] = cell_grid.cells[r]
                                            /\ cell_grid'.dirty_rows[r] = cell_grid.dirty_rows[r]}]
    /\ UNCHANGED <<shape_cache, text_area_pool, frame_count>>

RenderToTexture ==
    /\ history.renders < MaxRenders
    /\ \E drawn \in BOOLEAN :
         \E r \in {render_to_texture(cell_grid, shape_cache, text_area_pool, frame_count,
                                    drawn)} :
             /\ drawn = r.ok
             /\ frame_count' = r.frame_count
             /\ text_area_pool' = r.text_area_pool
             /\ shape_cache' = r.shape_cache
             /\ cell_grid' = r.cell_grid
             /\ op' = Observed(IF r.ok THEN "render" ELSE "render_failed", r.evict_args,
                               r.frame_count, None, None, {}, r.glyphon_areas)
             /\ history' = [history EXCEPT
                              !.renders = @ + 1,
                              !.allocations =
                                  frame_allocations(cell_grid, r.text_area_pool,
                                                    r.resolved_from, r.evict_args # <<>>),
                              !.dropped = dropped_rows(cell_grid, r.text_area_pool),
                              !.skipped = skipped_rows(cell_grid)]

NextFrame == SetCell \/ RenderToTexture

SpecFrame == InitFrame /\ [][NextFrame]_vars

(***************************************************************************)
(* Both copies of the cache, glyphon/cache.rs and advanced_text.rs, with   *)
(* a shaper that may produce no layout run.  history.copy names the copy   *)
(* the behaviour runs, history.shaped is the Buffer the shaper returned to *)
(* the last call (None when the call hit).                                 *)
(***************************************************************************)
ShapingTexts == Texts \cup {<<32>>}

\* Buffer::shape_until_scroll: layout runs, or none
ShaperOutputs(text) == {Shape(text), NoRuns(text)}

InitShaping ==
    /\ shape_cache = NewShapeCache(SIZE)
    /\ text_area_pool = NewTextAreaPool(TEXT_AREA_POOL_SIZE)
    /\ cell_grid = NewCellGrid
    /\ frame_count = 0
    /\ op = Observed("new", <<>>, 0, None, None, {}, <<>>)
    /\ \E copy \in {"glyphon", "advanced_text"} :
         history = [NewHistory(SIZE) EXCEPT !.copy = copy]

GetOrCreateShaped ==
    /\ shape_cache.hit_count + shape_cache.miss_count < MaxShapeCalls
    /\ \E text \in ShapingTexts \cap (Requestable \cup {<<32>>}), frame \in Frames :
         \E shaped \in ShaperOutputs(text) :
         \E r \in {IF history.copy = "glyphon"
                   THEN get_or_create_shaped(shape_cache, text, frame, shaped)
                   ELSE advanced_get_or_create(shape_cache, text, frame, shaped)} :
             /\ shape_cache' = r.cache
             /\ frame_count' = frame
             /\ op' = Observed(IF r.err # "" THEN r.err
                               ELSE IF r.hit THEN "hit" ELSE "miss",
                               text, frame, Some(r.index), r.buffer, {}, <<>>)
             /\ history' = [history EXCEPT
                              !.written[r.index] =
                                  IF r.hit \/ r.err # "" THEN @ ELSE Some(text),
                              !.seen = IF text[1] - 96 > @ THEN text[1] - 96 ELSE @,
                              !.shaped = IF r.hit THEN None ELSE Some(shaped)]
    /\ UNCHANGED <<text_area_pool, cell_grid>>

EvictShaped ==
    /\ history.sweeps < MaxSweeps
    /\ \E c \in {IF history.copy = "glyphon"
                  THEN evict_lru_if_needed(shape_cache, 1, 4, frame_count)
                  ELSE advanced_evict_lru_if_needed(shape_cache, 1, 4, frame_count)} :
         LET gone == {i \in 0..(c.SIZE - 1) :
                        shape_cache.entries[i].buffer # None /\ c.entries[i].buffer = None}
         IN  /\ gone # {}
             /\ shape_cache' = c
             /\ op' = Observed("evict", <<1, 4>>, frame_count, None, None, gone, <<>>)
             /\ history' = [history EXCEPT !.sweeps = @ + 1]
    /\ UNCHANGED <<text_area_pool, cell_grid, frame_count>>

NextShaping == GetOrCreateShaped \/ EvictShaped

SpecShaping == InitShaping /\ [][NextShaping]_vars

(***************************************************************************)
(* The cache asked for texts that lie beyond the lengths the model hashes: *)
(* a text with the fingerprint of another text, and a text whose           *)
(* fingerprint is 0.  Such texts exist among the byte strings (the         *)
(* fingerprint has 64 bits) and are named here by a marker that is no      *)
(* byte; fingerprint gives them the value the hash function has on them.   *)
(***************************************************************************)
\* some other text with the fingerprint of text
CollidesWith(text) == <<256>> \o text

\* some text with fingerprint 0
ZeroText == <<257>>

fingerprint(text) ==
    IF text = ZeroText THEN ZeroHash
    ELSE IF Head(text) = 256 THEN text_hash_of(Tail(text))
    ELSE text_hash_of(text)

CollideTexts == {<<96 + k>> : k \in 1..(SIZE - 1)} \cup {CollidesWith(<<97>>), ZeroText}

GetOrCreateHashed ==
    /\ shape_cache.hit_count + shape_cache.miss_count < MaxCollideCalls
    /\ \E text \in CollideTexts, frame \in Frames :
         \E r \in {get_or_create_hashed(shape_cache, fingerprint(text), text, frame)} :
             /\ shape_cache' = r.cache
             /\ frame_count' = frame
             /\ op' = Observed(IF r.hit THEN "hit" ELSE "miss", text, frame,
                               Some(r.index), r.buffer, {}, <<>>)
             /\ history' = [history EXCEPT
                              !.written[r.index] = IF r.hit THEN @ ELSE Some(text),
                              !.shaped = IF r.hit THEN None ELSE Some(Shape(text))]
    /\ UNCHANGED <<text_area_pool, cell_grid>>

InitCollide ==
    /\ shape_cache = NewShapeCache(SIZE)
    /\ text_area_pool = NewTextAreaPool(TEXT_AREA_POOL_SIZE)
    /\ cell_grid = NewCellGrid
    /\ frame_count = 0
    /\ op = Observed("new", <<>>, 0, None, None, {}, <<>>)
    /\ history = NewHistory(SIZE)

\* evict_lru_if_needed(0.1, frame) when it evicts
EvictCollide ==
    /\ history.sweeps < MaxSweeps
    /\ \E c \in {evict_lru_if_needed(shape_cache, 1, 10, frame_count)} :
         LET gone == {i \in 0..(c.SIZE - 1) :
                        shape_cache.entries[i].buffer # None /\ c.entries[i].buffer = None}
         IN  /\ gone # {}
             /\ shape_cache' = c
             /\ op' = Observed("evict", <<1, 10>>, frame_count, None, None, gone, <<>>)
             /\ history' = [history EXCEPT !.sweeps = @ + 1]
    /\ UNCHANGED <<text_area_pool, cell_grid, frame_count>>

NextCollide == GetOrCreateHashed \/ EvictCollide

SpecCollide == InitCollide /\ [][NextCollide]_vars

(***************************************************************************)
(* The hash function called between operations of the cache.               *)
(* history.hashed keeps, for each text, the first fingerprint returned for *)
(* it, with the frame and the number of lookups at that call.              *)
(***************************************************************************)
HashText ==
    /\ \E text \in HashTexts :
         \E h \in {hash_text_fnv1a_optimized(text)} :
             /\ op' = Observed("hash", text, frame_count, None, Some(h), {}, <<>>)
             /\ history' = [history EXCEPT
                              !.hashed[text] =
                                  IF @ = None
                                  THEN Some([hash |-> h, frame |-> frame_count,
                                             calls |-> shape_cache.hit_count
                                                       + shape_cache.miss_count])
                                  ELSE @]
    /\ UNCHANGED <<shape_cache, text_area_pool, cell_grid, frame_count>>

\* get_or_create, a few times
GetOrCreateFew ==
    /\ shape_cache.hit_count + shape_cache.miss_count < MaxHashCalls
    /\ GetOrCreate

NextHash == HashText \/ GetOrCreateFew \/ EvictLruIfNeeded

SpecHash == Init /\ [][NextHash]_vars

(***************************************************************************)
(* get_or_create taken one store at a time, with readers of stats() and    *)
(* get_buffer().  history.writer is the position of the call in progress.  *)
(* get_or_create and evict_lru_if_needed take &mut self and the readers    *)
(* &self: while a call holds the exclusive borrow no reader runs, which    *)
(* is the guard writer.pc = "idle" of the other actions.                   *)
(* history.snapshot is the last CacheStats a reader got, history.earlier   *)
(* the one before it.                                                      *)
(***************************************************************************)
\* the call starts: fingerprint and find_cached_entry
WriterBegin ==
    /\ history.writer.pc = "idle"
    /\ shape_cache.hit_count + shape_cache.miss_count < MaxSharedCalls
    /\ \E text \in Requestable, frame \in Frames :
         \E cached \in {find_cached_entry(shape_cache, text_hash_of(text))} :
             /\ history' = [history EXCEPT
                              !.writer = [pc |-> IF cached # None THEN "last_used"
                                                 ELSE "miss_count",
                                          text |-> text, frame |-> frame,
                                          index |-> IF cached # None THEN cached[1] ELSE 0],
                              !.seen = IF text[1] - 96 > @ THEN text[1] - 96 ELSE @]
             /\ frame_count' = frame
             /\ op' = Observed("begin", text, frame, cached, None, {}, <<>>)
    /\ UNCHANGED <<shape_cache, text_area_pool, cell_grid>>

\* the next store of the call in progress; the last one returns
WriterStep ==
    /\ history.writer.pc # "idle"
    /\ LET w == history.writer
           text_hash == text_hash_of(w.text)
       IN  CASE w.pc = "last_used" ->
                  /\ shape_cache' = [shape_cache EXCEPT
                                       !.entries[w.index].last_used = w.frame]
                  /\ history' = [history EXCEPT !.writer.pc = "entry_hit_count"]
                  /\ op' = Observed("step", w.text, w.frame, Some(w.index), None, {}, <<>>)
             [] w.pc = "entry_hit_count" ->
                  /\ shape_cache' = [shape_cache EXCEPT
                                       !.entries[w.index].hit_count = @ + 1]
                  /\ history' = [history EXCEPT !.writer.pc = "hit_count"]
                  /\ op' = Observed("step", w.text, w.frame, Some(w.index), None, {}, <<>>)
             [] w.pc = "hit_count" ->
                  /\ shape_cache' = [shape_cache EXCEPT !.hit_count = @ + 1]
                  /\ history' = [history EXCEPT !.writer.pc = "idle"]
                  /\ op' = Observed("hit", w.text, w.frame, Some(w.index),
                                    shape_cache.entries[w.index].buffer, {}, <<>>)
             [] w.pc = "miss_count" ->
                  /\ shape_cache' = [shape_cache EXCEPT !.miss_count = @ + 1]
                  /\ history' = [history EXCEPT !.writer.pc = "next_index"]
                  /\ op' = Observed("step", w.text, w.frame, None, None, {}, <<>>)
             [] w.pc = "next_index" ->
                  /\ \E slot \in {find_replacement_slot(shape_cache)} :
                       /\ shape_cache' = slot.cache
                       /\ history' = [history EXCEPT !.writer.pc = "replace",
                                                     !.writer.index = slot.index]
                       /\ op' = Observed("step", w.text, w.frame, Some(slot.index), None,
                                         {}, <<>>)
             [] w.pc = "replace" ->
                  /\ shape_cache' = [shape_cache EXCEPT
                                       !.entries[w.index] =
                                           new_entry(text_hash, w.text, w.frame)]
                  /\ history' = [history EXCEPT !.writer.pc = "idle",
                                                !.written[w.index] = Some(w.text)]
                  /\ op' = Observed("miss", w.text, w.frame, Some(w.index),
                                    Some(Shape(w.text)), {}, <<>>)
    /\ UNCHANGED <<text_area_pool, cell_grid, frame_count>>

\* a reader calls stats()
ReaderStats ==
    /\ history.writer.pc = "idle"
    /\ \E snapshot \in {stats(shape_cache)} :
         /\ op' = Observed("stats", <<>>, frame_count, None, Some(snapshot), {}, <<>>)
         /\ history' = [history EXCEPT !.snapshot = Some(snapshot), !.earlier = history.snapshot]
    /\ UNCHANGED <<shape_cache, text_area_pool, cell_grid, frame_count>>

\* a reader calls get_buffer(cache_index)
ReaderGetBuffer ==
    /\ history.writer.pc = "idle"
    /\ GetBuffer

\* evict_lru_if_needed between two calls of get_or_create
WriterEvict ==
    /\ history.writer.pc = "idle"
    /\ EvictLruIfNeeded

NextShared == WriterBegin \/ WriterStep \/ ReaderStats \/ ReaderGetBuffer \/ WriterEvict

SpecShared == Init /\ [][NextShared]_vars

(***************************************************************************)
(* The pool driven through reset, add_area and iter_active.  It starts     *)
(* new, or after a frame that filled it followed by frames that added      *)
(* nothing, up to a reset that compacts.  history.added holds the          *)
(* descriptors accepted since the last reset.                              *)
(***************************************************************************)
\* n more frames that only reset the pool
RECURSIVE reset_times(_, _)
reset_times(pool, n) ==
    IF n = 0 THEN pool
    ELSE IF n = 1 THEN reset(pool)
    ELSE CHOOSE out \in {reset_times(p, n - (n \div 2)) : p \in {reset_times(pool, n \div 2)}} : TRUE

\* add_area for the row, as create_text_areas_for_dirty_rows_fallback calls it
add_row(pool, row) ==
    add_area(pool, row, text_hash_of(<<97 + row>>), 0, row_y_position(row), 1,
             row_bounds(row), get_glyph_color(7))

\* a pool of two descriptors after its first frame, which added rows 0 and 1
Filled == add_row(add_row(reset(NewTextAreaPool(2)), 0).pool, 1).pool

\* the frames without an add after which the next reset compacts: at frame
\* 60 the descriptors of frame 1 are kept, at frame 240 they are stale
IdleFrames == {59, 239}

\* the pool whose first slot was rewritten in frame 60 and which then idled
\* to frame 240: the next reset compacts, the first descriptor is 180 frames
\* old and the second 239
Refilled == reset_times(add_row(reset_times(Filled, 59), 0).pool, 180)

\* the stored descriptors that are not stale at the frame, from slot i on
RECURSIVE fresh_areas(_, _, _)
fresh_areas(pool, current_frame, i) ==
    IF i >= pool.CAPACITY THEN <<>>
    ELSE (IF pool.areas[i] # None
             /\ current_frame - pool.areas[i][1].last_access_frame <= MAX_AGE_FRAMES
          THEN pool.areas[i] ELSE <<>>)
         \o fresh_areas(pool, current_frame, i + 1)

InitPool ==
    /\ text_area_pool \in
         {NewTextAreaPool(TEXT_AREA_POOL_SIZE), NewTextAreaPool(TEXT_AREA_POOL_SIZE + 1)}
         \cup {reset_times(Filled, n) : n \in IdleFrames} \cup {Refilled}
    /\ shape_cache = NewShapeCache(SHAPE_CACHE_SIZE)
    /\ cell_grid = NewCellGrid
    /\ frame_count = 0
    /\ op = Observed("new", <<>>, 0, None, None, {}, <<>>)
    /\ history = NewHistory(SHAPE_CACHE_SIZE)

Reset ==
    /\ history.resets < MaxResets
    /\ text_area_pool' = reset(text_area_pool)
    /\ op' = Observed("reset", <<>>, text_area_pool.frame_counter, None, None, {}, <<>>)
    /\ history' = [history EXCEPT !.resets = @ + 1, !.added = <<>>]
    /\ UNCHANGED <<shape_cache, cell_grid, frame_count>>

AddArea ==
    /\ history.adds < MaxAdds
    /\ \E row \in 0..ROWS :
         \E r \in {add_row(text_area_pool, row)} :
             /\ text_area_pool' = r.pool
             /\ op' = Observed(IF r.ok THEN "add_ok" ELSE "CapacityExceeded", <<>>,
                               text_area_pool.frame_counter, Some(row), None, {}, <<>>)
             /\ history' = [history EXCEPT
                              !.adds = @ + 1,
                              !.added = IF r.ok
                                        THEN @ \o r.pool.areas[text_area_pool.active_count]
                                        ELSE @]
    /\ UNCHANGED <<shape_cache, cell_grid, frame_count>>

IterActive ==
    /\ op' = Observed("iter_active", <<>>, text_area_pool.frame_counter, None, None, {},
                      iter_active(text_area_pool))
    /\ UNCHANGED <<shape_cache, text_area_pool, cell_grid, frame_count, history>>

NextPool == Reset \/ AddArea \/ IterActive

SpecPool == InitPool /\ [][NextPool]_vars

(***************************************************************************)
(* C1: every descriptor handed to the renderer at submission resolves to a *)
(* payload that was shaped for the descriptor's own fingerprint.           *)
(***************************************************************************)
C1_SubmittedPayloadMatchesFingerprint ==
    op.kind = "render" =>
        \A k \in 1..Len(op.areas) :
            text_hash_of(op.areas[k].buffer.text) = op.areas[k].area.text_hash

Occupied(c) == {i \in 0..(c.SIZE - 1) : c.entries[i].buffer # None}

IsLookup(o) == o.kind \in {"hit", "miss"}

(***************************************************************************)
(* C2: get_or_create of the same text twice in succession returns the same *)
(* slot index, and the second call adds one to the hit counter and leaves  *)
(* the miss counter alone.                                                 *)
(***************************************************************************)
C2_SecondCallHitsSameSlot ==
    [][(IsLookup(op) /\ IsLookup(op') /\ op'.text = op.text)
         => /\ op'.index = op.index
            /\ shape_cache'.hit_count = shape_cache.hit_count + 1
            /\ shape_cache'.miss_count = shape_cache.miss_count]_vars

\* the first lookup of the run missed and the second, of the same text, hit
C2_Witness ==
    /\ op.kind = "hit"
    /\ shape_cache.hit_count = 1
    /\ shape_cache.miss_count = 1
    /\ history.sweeps = 0

(***************************************************************************)
(* C3: get_buffer(i) returns nothing or the payload shaped for the text    *)
(* get_or_create most recently wrote to slot i, under that text's          *)
(* fingerprint.                                                            *)
(***************************************************************************)
C3_BufferIsLastWritten ==
    \A i \in 0..(shape_cache.SIZE - 1) :
        LET buffer == get_buffer(shape_cache, i)
        IN  buffer # None =>
              /\ history.written[i] # None
              /\ buffer[1] = Shape(history.written[i][1])
              /\ shape_cache.entries[i].text_hash = text_hash_of(history.written[i][1])

\* the cursor has wrapped, a sweep has evicted, and slots hold payloads
C3_Witness ==
    /\ shape_cache.miss_count > shape_cache.SIZE
    /\ history.sweeps > 0
    /\ \E i \in 0..(shape_cache.SIZE - 1) :
         get_buffer(shape_cache, i) # None /\ get_buffer(shape_cache, i) # Some(Shape(<<97>>))

(***************************************************************************)
(* C4: never more than N slots are occupied, and as long as no sweep has   *)
(* evicted, the occupied slots number min(misses, N): N after N + 1        *)
(* insertions.                                                             *)
(***************************************************************************)
C4_OccupiedAtMostCapacity ==
    /\ entries_used(shape_cache) <= shape_cache.SIZE
    /\ history.sweeps = 0 =>
         entries_used(shape_cache) =
             IF shape_cache.miss_count < shape_cache.SIZE
             THEN shape_cache.miss_count ELSE shape_cache.SIZE

\* N + 1 insertions without a sweep
C4_Witness ==
    /\ history.sweeps = 0
    /\ shape_cache.miss_count = shape_cache.SIZE + 1
    /\ shape_cache.hit_count = 0
    /\ entries_used(shape_cache) = shape_cache.SIZE

(***************************************************************************)
(* C5: no two occupied slots hold the same fingerprint.                    *)
(***************************************************************************)
C5_FingerprintsUnique ==
    \A i, j \in Occupied(shape_cache) :
        i # j => shape_cache.entries[i].text_hash # shape_cache.entries[j].text_hash

\* a full cache that has served hits, wrapped and been swept
C5_Witness ==
    /\ Cardinality(Occupied(shape_cache)) >= 3
    /\ shape_cache.hit_count > 0
    /\ shape_cache.miss_count > shape_cache.SIZE
    /\ history.sweeps > 0

(***************************************************************************)
(* C6: the k-th miss since construction (k from 0) writes slot k mod N,    *)
(* whatever slots are empty, and a hit leaves the cursor alone.            *)
(***************************************************************************)
C6_RoundRobinReplacement ==
    [][/\ op'.kind = "miss"
            => op'.index = Some(shape_cache.miss_count % shape_cache.SIZE)
       /\ op'.kind = "hit" => shape_cache'.next_index = shape_cache.next_index]_vars

\* N = SIZE: a, b, c, d inserted, one hit, e written over slot 0, and the
\* next get_or_create("a") a miss that goes to slot 1
C6_Witness ==
    /\ shape_cache.SIZE = SIZE
    /\ history.sweeps = 0
    /\ op.kind = "miss"
    /\ op.text = <<97>>
    /\ op.index = Some(1)
    /\ shape_cache.hit_count = 1
    /\ shape_cache.miss_count = SIZE + 2
    /\ shape_cache.entries[0].buffer = Some(Shape(<<96 + SIZE + 1>>))

(***************************************************************************)
(* C7: a miss adds one to the miss counter, stores fingerprint, payload,   *)
(* last_used = frame and use_count = 1 in the returned slot, and leaves    *)
(* the hit counter and every other slot as they were.                      *)
(***************************************************************************)
C7_MissEffect ==
    [][op'.kind = "miss"
         => /\ shape_cache'.miss_count = shape_cache.miss_count + 1
            /\ shape_cache'.hit_count = shape_cache.hit_count
            /\ shape_cache'.entries[op'.index[1]] =
                 [text_hash |-> text_hash_of(op'.text),
                  buffer |-> Some(Shape(op'.text)),
                  last_used |-> op'.frame, hit_count |-> 1]
            /\ op'.buffer = Some(Shape(op'.text))
            /\ \A j \in 0..(shape_cache.SIZE - 1) :
                 j # op'.index[1] => shape_cache'.entries[j] = shape_cache.entries[j]]_vars

\* a miss that replaced an occupied slot
C7_Witness ==
    /\ op.kind = "miss"
    /\ shape_cache.miss_count > shape_cache.SIZE
    /\ shape_cache.entries[op.index[1]].last_used = op.frame
    /\ op.frame > 0

(***************************************************************************)
(* C8: a hit sets the slot's last_used to the frame, adds one to its       *)
(* use_count and to the hit counter, and changes nothing else.             *)
(***************************************************************************)
C8_HitEffect ==
    [][op'.kind = "hit"
         => LET i == op'.index[1]
            IN  /\ shape_cache'.hit_count = shape_cache.hit_count + 1
                /\ shape_cache'.miss_count = shape_cache.miss_count
                /\ shape_cache'.next_index = shape_cache.next_index
                /\ shape_cache'.entries[i] =
                     [shape_cache.entries[i] EXCEPT
                        !.last_used = op'.frame,
                        !.hit_count = shape_cache.entries[i].hit_count + 1]
                /\ \A j \in 0..(shape_cache.SIZE - 1) :
                     j # i => shape_cache'.entries[j] = shape_cache.entries[j]]_vars

\* a hit in a later frame than the slot's insertion, on a slot already hit
C8_Witness ==
    /\ op.kind = "hit"
    /\ op.frame = MaxFrame
    /\ shape_cache.entries[op.index[1]].hit_count >= 3
    /\ shape_cache.entries[op.index[1]].last_used = op.frame

DistinctLastUsed(c) ==
    \A i, j \in Occupied(c) : i # j => c.entries[i].last_used # c.entries[j].last_used

(***************************************************************************)
(* C9: when the sweep triggers and the occupied slots have distinct        *)
(* last_used values, every slot that stays occupied has a last_used        *)
(* greater than that of every evicted slot.                                *)
(***************************************************************************)
C9_SweepEvictsOldest ==
    [][(op'.kind = "evict" /\ DistinctLastUsed(shape_cache))
         => \A e \in op'.evicted, k \in Occupied(shape_cache') :
               shape_cache.entries[k].last_used > shape_cache.entries[e].last_used]_vars

(***************************************************************************)
(* C10, as stated: a triggered sweep evicts 25% of the occupied slots      *)
(* (rounded down or up), never more than are occupied.                     *)
(***************************************************************************)
C10_EvictsQuarterOfOccupied ==
    [][op'.kind = "evict"
         => LET n == Cardinality(op'.evicted)
                used == entries_used(shape_cache)
            IN  /\ n <= used
                /\ 4 * n > used - 4
                /\ 4 * n < used + 4]_vars

(***************************************************************************)
(* C10, amended: a triggered sweep evicts N / 4 slots (a quarter of the    *)
(* capacity, rounded down), or every occupied slot when fewer than that    *)
(* are occupied.                                                           *)
(***************************************************************************)
C10_EvictsQuarterOfCapacity ==
    [][op'.kind = "evict"
         => LET n == Cardinality(op'.evicted)
                used == entries_used(shape_cache)
                quarter == shape_cache.SIZE \div 4
            IN  n = IF quarter < used THEN quarter ELSE used]_vars

\* a sweep that evicted a quarter of the capacity and left slots occupied
C10_Witness ==
    /\ op.kind = "evict"
    /\ Cardinality(op.evicted) = shape_cache.SIZE \div 4
    /\ Cardinality(op.evicted) = 2
    /\ entries_used(shape_cache) = 1

(***************************************************************************)
(* C11: evict_lru_if_needed leaves the whole cache unchanged when the      *)
(* occupied fraction is at most max_utilization; when it triggers, the     *)
(* counters and the cursor stay, every slot it does not evict (empty or    *)
(* surviving) stays as it was, and every evicted slot becomes the empty    *)
(* entry (no payload, fingerprint 0, last_used 0, use_count 0).            *)
(***************************************************************************)
C11_SweepEffect ==
    [][op'.kind \in {"keep", "evict"}
         => /\ entries_used(shape_cache) * op'.text[2] <= op'.text[1] * shape_cache.SIZE
                 => shape_cache' = shape_cache
            /\ shape_cache'.hit_count = shape_cache.hit_count
            /\ shape_cache'.miss_count = shape_cache.miss_count
            /\ shape_cache'.next_index = shape_cache.next_index
            /\ \A i \in 0..(shape_cache.SIZE - 1) :
                 IF i \in op'.evicted
                 THEN /\ shape_cache.entries[i].buffer # None
                      /\ shape_cache'.entries[i] =
                           [text_hash |-> ZeroHash, buffer |-> None, last_used |-> 0,
                            hit_count |-> 0]
                 ELSE shape_cache'.entries[i] = shape_cache.entries[i]]_vars

\* a sweep that evicted and left a slot with hits, an empty slot and a moved cursor
C11_Witness ==
    /\ op.kind = "evict"
    /\ op.evicted # {}
    /\ shape_cache.next_index > 0
    /\ \E i \in Occupied(shape_cache) : shape_cache.entries[i].hit_count >= 2
    /\ \E i \in 0..(shape_cache.SIZE - 1) : i \notin op.evicted /\ i \notin Occupied(shape_cache)

(***************************************************************************)
(* C12: in a pool of capacity M an add succeeds exactly when fewer than M  *)
(* descriptors were accepted since the last reset; a refused add returns   *)
(* CapacityExceeded and leaves the pool as it was, with active count M,    *)
(* and iter_active yields exactly the M accepted descriptors.              *)
(***************************************************************************)
C12_CapacityExceededAfterM ==
    [][op'.kind \in {"add_ok", "CapacityExceeded"}
         => /\ op'.kind = "add_ok" <=> Len(history.added) < text_area_pool.CAPACITY
            /\ op'.kind = "CapacityExceeded"
                 => /\ text_area_pool' = text_area_pool
                    /\ len(text_area_pool') = text_area_pool.CAPACITY
                    /\ Len(history.added) = text_area_pool.CAPACITY
                    /\ iter_active(text_area_pool') = history.added]_vars

C12_Witness ==
    /\ op.kind = "CapacityExceeded"
    /\ op.index = Some(2)
    /\ text_area_pool.CAPACITY = 2
    /\ [i \in 1..2 |-> iter_active(text_area_pool)[i].buffer_cache_index] = <<0, 1>>

(***************************************************************************)
(* C13: reset leaves the pool logically empty (len 0, is_empty,            *)
(* utilization 0, iter_active yields nothing) whatever it held, also when  *)
(* no add came since the previous reset and when the reset compacts.       *)
(***************************************************************************)
C13_ResetEmpties ==
    [][op'.kind = "reset"
         => /\ len(text_area_pool') = 0
            /\ is_empty(text_area_pool')
            /\ utilization(text_area_pool')[1] = 0
            /\ iter_active(text_area_pool') = <<>>]_vars

\* a reset with no add since the previous one, which compacted and dropped
\* the stale descriptors of an earlier frame
C13_Witness ==
    /\ op.kind = "reset"
    /\ op.frame = 240
    /\ history.resets >= 1
    /\ history.adds = 0
    /\ \A i \in DOMAIN text_area_pool.areas : text_area_pool.areas[i] = None
    /\ utilization(text_area_pool)[1] = 0

(***************************************************************************)
(* C14: after any resets and adds 0 <= len() <= M and iter_active yields   *)
(* exactly len() descriptors, those accepted since the last reset in the   *)
(* order they were added; an iteration reports that same sequence.         *)
(***************************************************************************)
C14_IterActiveIsAcceptedSinceReset ==
    /\ len(text_area_pool) \in 0..text_area_pool.CAPACITY
    /\ Len(iter_active(text_area_pool)) = len(text_area_pool)
    /\ iter_active(text_area_pool) = history.added
    /\ op.kind = "iter_active" => op.areas = history.added

\* one descriptor of this frame is iterated while the slot behind it still
\* holds a descriptor of an earlier frame
C14_Witness ==
    /\ op.kind = "iter_active"
    /\ Len(op.areas) = 1
    /\ text_area_pool.CAPACITY = 2
    /\ text_area_pool.areas[1] # None
    /\ text_area_pool.areas[1][1].created_frame < op.areas[1].created_frame

(***************************************************************************)
(* C15: get_buffer(i) returns nothing for an index i >= N, returns nothing *)
(* for a slot without payload, returns the slot's payload otherwise, and   *)
(* leaves the cache as it was.                                             *)
(***************************************************************************)
C15_GetBufferTotal ==
    [][op'.kind = "get_buffer"
         => /\ shape_cache' = shape_cache
            /\ op'.index[1] >= shape_cache.SIZE => op'.buffer = None
            /\ op'.index[1] < shape_cache.SIZE
                 => op'.buffer = shape_cache.entries[op'.index[1]].buffer]_vars

\* an index past the array is read from a cache whose last slot is filled
C15_Witness ==
    /\ op.kind = "get_buffer"
    /\ op.index[1] = shape_cache.SIZE
    /\ op.buffer = None
    /\ shape_cache.entries[shape_cache.SIZE - 1].buffer # None
    /\ shape_cache.entries[0].buffer = None

(***************************************************************************)
(* C16: when the shaper produces no layout run for a text that is not      *)
(* blank, get_or_create fails with ShapingFailed and modifies no slot of   *)
(* the cache.                                                              *)
(***************************************************************************)
C16_ShapingFailedLeavesSlots ==
    [][(/\ op'.kind \in {"miss", "ShapingFailed"}
        /\ history'.shaped # None
        /\ history'.shaped[1].layout_runs = 0
        /\ ~trim_is_empty(op'.text))
         => /\ op'.kind = "ShapingFailed"
            /\ shape_cache'.entries = shape_cache.entries]_vars

(***************************************************************************)
(* C17: the defensive errors of get_or_create are never returned: the      *)
(* replacement index is below N, a slot the lookup reports has a payload,  *)
(* and the slot a miss wrote has a payload.                                *)
(***************************************************************************)
C17_DefensiveErrorsUnreachable ==
    /\ op.kind \notin {"CacheError", "InvalidCacheIndex", "panic"}
    /\ find_replacement_slot(shape_cache).index < shape_cache.SIZE
    /\ \A text \in ShapingTexts :
         find_cached_entry(shape_cache, text_hash_of(text)) # None
           => shape_cache.entries[find_cached_entry(shape_cache, text_hash_of(text))[1]].buffer
                # None
    /\ op.kind = "miss" => shape_cache.entries[op.index[1]].buffer # None

\* the cursor has passed the end of the array and a miss wrote a slot that an
\* eviction had emptied
C17_Witness ==
    /\ op.kind = "miss"
    /\ shape_cache.next_index > shape_cache.SIZE
    /\ history.sweeps > 0
    /\ op.index = Some(0)

(***************************************************************************)
(* C18: a row whose descriptor was dropped because the pool was full is    *)
(* handed to the renderer in a following frame whose pool has room, unless *)
(* it was modified in between.                                             *)
(***************************************************************************)
C18_DroppedRowRecovered ==
    [][op'.kind \in {"render", "render_failed"}
         => \A r \in history.dropped :
              len(text_area_pool') < text_area_pool'.CAPACITY
                => \E k \in 1..Len(op'.areas) : op'.areas[k].area.top = row_y_position(r)]_vars

(***************************************************************************)
(* C19 as stated: render_to_texture calls evict_lru_if_needed(0.8, frame)  *)
(* on exactly the frames whose number is a multiple of 60.                 *)
(***************************************************************************)
C19_SweepEvery60Frames ==
    op.kind \in {"render", "render_failed"}
      => (op.text = <<4, 5, op.frame>> <=> op.frame % 60 = 0)

(***************************************************************************)
(* C19 amended: render_to_texture calls evict_lru_if_needed(0.8, frame)    *)
(* on exactly the frames that were drawn and whose number is a multiple of *)
(* 300, and makes no such call on any other frame.                         *)
(***************************************************************************)
C19_SweepEvery300DrawnFrames ==
    op.kind \in {"render", "render_failed"}
      => /\ op.text = <<4, 5, op.frame>> <=> (op.kind = "render" /\ op.frame % 300 = 0)
         /\ op.text \in {<<>>, <<4, 5, op.frame>>}

\* frame 300 was drawn and its sweep evicted a slot of the full cache
C19_Witness ==
    /\ op.kind = "render"
    /\ op.frame = 300
    /\ op.text = <<4, 5, 300>>
    /\ entries_used(shape_cache) < shape_cache.SIZE

(***************************************************************************)
(* C20: a dirty row without text is skipped: a frame calls get_or_create   *)
(* once for each dirty row with text and adds descriptors for those rows   *)
(* only; a frame whose dirty rows are all without text leaves the cache    *)
(* as it was and the pool without descriptor.                              *)
(***************************************************************************)
C20_EmptyRowSkipped ==
    [][op'.kind \in {"render", "render_failed"}
         => LET with_text == dirty_rows(cell_grid) \ skipped_rows(cell_grid)
            IN  /\ shape_cache'.hit_count + shape_cache'.miss_count
                     = shape_cache.hit_count + shape_cache.miss_count + Cardinality(with_text)
                /\ len(text_area_pool')
                     = Min({Cardinality(with_text), text_area_pool.CAPACITY})
                /\ \A k \in 1..Len(iter_active(text_area_pool')) :
                     \E r \in with_text :
                       iter_active(text_area_pool')[k].top = row_y_position(r)
                /\ (with_text = {} /\ op'.text = <<>>) => shape_cache' = shape_cache]_vars

\* a frame with a dirty row of spaces and a dirty row with text
C20_Witness ==
    /\ op.kind = "render"
    /\ history.skipped # {}
    /\ Len(op.areas) = 1
    /\ shape_cache.miss_count = 1

(***************************************************************************)
(* C21: a frame calls get_or_create once for every dirty row with text and *)
(* writes or touches only slots of such rows, stamping them with the frame *)
(* number; it adds descriptors for dirty rows only, leaves cache and pool  *)
(* alone when no row is dirty, and leaves every row clean when it was      *)
(* drawn; a row becomes dirty only through set_cell.                       *)
(***************************************************************************)
C21_DirtyRowsResolvedThenClean ==
    [][/\ op'.kind \in {"render", "render_failed"}
            => /\ shape_cache'.hit_count + shape_cache'.miss_count
                    = shape_cache.hit_count + shape_cache.miss_count
                      + Cardinality(dirty_rows(cell_grid) \ skipped_rows(cell_grid))
               /\ \A i \in Occupied(shape_cache') :
                    shape_cache'.entries[i] # shape_cache.entries[i]
                      => \E r \in dirty_rows(cell_grid) \ skipped_rows(cell_grid) :
                           /\ shape_cache'.entries[i].text_hash
                                = text_hash_of(from_cells(cell_grid.cells[r], r).text)
                           /\ shape_cache'.entries[i].last_used = frame_count'
               /\ \A k \in 1..Len(iter_active(text_area_pool')) :
                    \E r \in dirty_rows(cell_grid) :
                      iter_active(text_area_pool')[k].top = row_y_position(r)
               /\ (dirty_rows(cell_grid) = {} /\ op'.text = <<>>)
                    => /\ shape_cache' = shape_cache
                       /\ len(text_area_pool') = 0
               /\ op'.kind = "render" => dirty_rows(cell_grid') = {}
       /\ \A r \in dirty_rows(cell_grid') \ dirty_rows(cell_grid) :
            /\ op'.kind = "set_cell"
            /\ cell_grid'.change_count = cell_grid.change_count + 1]_vars

\* the second drawn frame, for which one row was changed after the first
C21_Witness ==
    /\ op.kind = "render"
    /\ history.renders = 2
    /\ history.changes = 3
    /\ Len(op.areas) = 1
    /\ op.frame = 2
    /\ dirty_rows(cell_grid) = {}
    /\ shape_cache.miss_count = 2

(***************************************************************************)
(* C22: when a slot holds the payload of another text with the fingerprint *)
(* of the requested text, get_or_create hits: it returns that slot and     *)
(* that text's payload, shapes nothing, writes no payload and advances     *)
(* neither the miss counter nor the cursor.                                *)
(***************************************************************************)
C22_CollisionIsAHit ==
    [][op'.kind \in {"hit", "miss"}
         => \A i \in Occupied(shape_cache) :
              (/\ shape_cache.entries[i].text_hash = fingerprint(op'.text)
               /\ history.written[i] # Some(op'.text))
                => /\ op'.kind = "hit"
                   /\ op'.index = Some(i)
                   /\ op'.buffer = Some(Shape(history.written[i][1]))
                   /\ history'.shaped = None
                   /\ history'.written = history.written
                   /\ Occupied(shape_cache') = Occupied(shape_cache)
                   /\ shape_cache'.miss_count = shape_cache.miss_count
                   /\ shape_cache'.next_index = shape_cache.next_index
                   /\ \A j \in 0..(shape_cache.SIZE - 1) :
                        /\ shape_cache'.entries[j].buffer = shape_cache.entries[j].buffer
                        /\ shape_cache'.entries[j].text_hash
                             = shape_cache.entries[j].text_hash]_vars

\* the text colliding with "a" was served the payload shaped for "a"
C22_Witness ==
    /\ op.kind = "hit"
    /\ op.text = CollidesWith(<<97>>)
    /\ op.buffer = Some(Shape(<<97>>))
    /\ entries_used(shape_cache) = 1

(***************************************************************************)
(* C23: a lookup never returns a slot without payload, whatever its        *)
(* fingerprint field holds: a text with fingerprint 0 misses unless an     *)
(* occupied slot carries fingerprint 0, is stored at the cursor like any   *)
(* other text, and hits on its own slot afterwards.                        *)
(***************************************************************************)
C23_EmptySlotNeverFound ==
    [][op'.kind \in {"hit", "miss"}
         => /\ op'.kind = "hit" => op'.index[1] \in Occupied(shape_cache)
            /\ op'.buffer # None
            /\ fingerprint(op'.text) = ZeroHash
                 => IF \E i \in Occupied(shape_cache) :
                         shape_cache.entries[i].text_hash = ZeroHash
                    THEN /\ op'.kind = "hit"
                         /\ shape_cache.entries[op'.index[1]].text_hash = ZeroHash
                         /\ op'.buffer = Some(Shape(op'.text))
                    ELSE /\ op'.kind = "miss"
                         /\ op'.index = Some(shape_cache.next_index % shape_cache.SIZE)
                         /\ shape_cache'.entries[op'.index[1]] =
                              [text_hash |-> ZeroHash, buffer |-> Some(Shape(op'.text)),
                               last_used |-> op'.frame, hit_count |-> 1]]_vars

\* the text with fingerprint 0 hits on its own slot, behind a slot that an
\* eviction reset to fingerprint 0
C23_Witness ==
    /\ op.kind = "hit"
    /\ op.text = ZeroText
    /\ op.index # None
    /\ op.index[1] > 0
    /\ shape_cache.entries[0] = EmptyEntry
    /\ history.sweeps > 0

C26_CountersCountLookups ==
    [][/\ shape_cache'.hit_count >= shape_cache.hit_count
       /\ shape_cache'.miss_count >= shape_cache.miss_count
       /\ shape_cache'.hit_count + shape_cache'.miss_count = history'.lookups
       /\ op'.kind = "hit"
            => /\ shape_cache'.hit_count = shape_cache.hit_count + 1
               /\ shape_cache'.miss_count = shape_cache.miss_count
               /\ history'.lookups = history.lookups + 1
       /\ op'.kind = "miss"
            => /\ shape_cache'.miss_count = shape_cache.miss_count + 1
               /\ shape_cache'.hit_count = shape_cache.hit_count
               /\ history'.lookups = history.lookups + 1
       /\ op'.kind \in {"get_buffer", "stats", "evict", "keep"}
            => /\ shape_cache'.hit_count = shape_cache.hit_count
               /\ shape_cache'.miss_count = shape_cache.miss_count
               /\ history'.lookups = history.lookups]_vars

\* a sweep that evicted, after hits and misses
C26_Witness ==
    /\ op.kind = "evict"
    /\ op.evicted # {}
    /\ shape_cache.hit_count >= 2
    /\ shape_cache.miss_count >= 2
    /\ history.lookups = shape_cache.hit_count + shape_cache.miss_count

(***************************************************************************)
(* C27: stats() changes nothing and reports capacity N, the number of      *)
(* slots holding a payload, the two global counters, and hit_rate =        *)
(* hits / (hits + misses), 0 when no lookup has happened.                  *)
(***************************************************************************)
C27_StatsSnapshot ==
    [][op'.kind = "stats"
         => /\ shape_cache' = shape_cache
            /\ op'.buffer[1].capacity = shape_cache.SIZE
            /\ op'.buffer[1].entries_used = Cardinality(Occupied(shape_cache))
            /\ op'.buffer[1].hit_count = shape_cache.hit_count
            /\ op'.buffer[1].miss_count = shape_cache.miss_count
            /\ op'.buffer[1].hit_rate
                 = IF history.lookups = 0 THEN <<0, 1>>
                   ELSE <<shape_cache.hit_count, history.lookups>>]_vars

\* a snapshot with hit rate 1/3 of a cache from which a sweep evicted
C27_Witness ==
    /\ op.kind = "stats"
    /\ op.buffer[1].hit_rate = <<1, 3>>
    /\ op.buffer[1].entries_used < op.buffer[1].miss_count
    /\ op.buffer[1].capacity = 2 * SIZE

(***************************************************************************)
(* C28: a frame performs no heap allocation on its hot path: not for the   *)
(* rows it processes, not for resolving the descriptors, not for the       *)
(* sweep.                                                                  *)
(***************************************************************************)
C28_HotPathAllocatesNothing ==
    op.kind \in {"render", "render_failed"} => history.allocations = 0

(***************************************************************************)
(* C29: reset advances the frame counter by one; when the counter was a    *)
(* multiple of 60 it compacts: the stored descriptors at most 180 frames   *)
(* old are kept, in order, packed from index 0, all others are removed;    *)
(* any other reset leaves the backing array as it was.                     *)
(***************************************************************************)
C29_ResetCompactsOnCadence ==
    [][op'.kind = "reset"
         => /\ text_area_pool'.frame_counter = text_area_pool.frame_counter + 1
            /\ text_area_pool.frame_counter % 60 # 0
                 => text_area_pool'.areas = text_area_pool.areas
            /\ text_area_pool.frame_counter % 60 = 0
                 => \A i \in 0..(text_area_pool.CAPACITY - 1) :
                      text_area_pool'.areas[i]
                        = IF i < Len(fresh_areas(text_area_pool,
                                                 text_area_pool.frame_counter, 0))
                          THEN Some(fresh_areas(text_area_pool,
                                                text_area_pool.frame_counter, 0)[i + 1])
                          ELSE None]_vars

\* the reset of frame 240 kept the descriptor of age 180 and removed the
\* one of age 239
C29_Witness ==
    /\ op.kind = "reset"
    /\ op.frame = 240
    /\ text_area_pool.areas[0] # None
    /\ text_area_pool.areas[0][1].last_access_frame = 60
    /\ text_area_pool.areas[1] = None

(***************************************************************************)
(* C30: in a frame the pool is reset before any row is processed, so its   *)
(* active descriptors are all of this frame; the descriptors are resolved  *)
(* against the cache as the frame's last get_or_create left it; the LRU    *)
(* sweep runs after that, so every active descriptor of the frame was      *)
(* submitted with a payload, whatever the sweep of the frame evicts.       *)
(***************************************************************************)
C30_SweepAfterResolution ==
    [][op'.kind \in {"render", "render_failed"}
         => /\ text_area_pool'.frame_counter = text_area_pool.frame_counter + 1
            /\ \A k \in 1..Len(iter_active(text_area_pool')) :
                 iter_active(text_area_pool')[k].created_frame
                   = text_area_pool'.frame_counter
            /\ Len(op'.areas) = Len(iter_active(text_area_pool'))
            /\ \E built \in {create_text_areas_for_dirty_rows_fallback(
                                 cell_grid, shape_cache, text_area_pool, frame_count + 1)} :
                 /\ op'.areas = resolve(iter_active(text_area_pool'), built.cache)
                 /\ shape_cache' # built.cache
                      => /\ op'.kind = "render"
                         /\ shape_cache'
                              = evict_lru_if_needed(built.cache, 4, 5, frame_count')]_vars

\* the sweep of frame 300 emptied the slot a descriptor of frame 300 refers
\* to; the descriptor had been submitted with the slot's payload
C30_Witness ==
    /\ op.kind = "render"
    /\ op.frame = 300
    /\ \E k \in 1..Len(op.areas) :
         /\ shape_cache.entries[op.areas[k].area.buffer_cache_index].buffer = None
         /\ op.areas[k].area.created_frame = text_area_pool.frame_counter

(***************************************************************************)
(* The rows of a grid turned into descriptors one at a time, through       *)
(* create_text_area_for_row, between resets of the pool                    *)
(***************************************************************************)
MaxRowCalls == 3

MaxRowResets == 1

MaxRowChanges == 2

\* the palette indices of the coloured grid
RowForegrounds == {1, 7}

InitRow ==
    /\ shape_cache = NewShapeCache(SHAPE_CACHE_SIZE)
    /\ text_area_pool \in {reset(NewTextAreaPool(TEXT_AREA_POOL_SIZE)),
                           reset(NewTextAreaPool(TEXT_AREA_POOL_SIZE + 1))}
    /\ cell_grid = NewCellGrid
    /\ frame_count = 1
    /\ op = Observed("new", <<>>, 0, None, None, {}, <<>>)
    /\ history = NewHistory(SHAPE_CACHE_SIZE)

SetColouredCell ==
    /\ history.changes < MaxRowChanges
    /\ \E row \in 0..(ROWS - 1), col \in 0..(COLS - 1), character \in Chars,
          foreground \in RowForegrounds :
         /\ cell_grid' = set_cell(cell_grid, row, col,
                                  [character |-> character, foreground |-> foreground])
         /\ op' = Observed("set_cell", <<character>>, frame_count, Some(row), Some(col),
                           {}, <<>>)
    /\ history' = [history EXCEPT !.changes = @ + 1]
    /\ UNCHANGED <<shape_cache, text_area_pool, frame_count>>

CreateTextAreaForRow ==
    /\ history.adds < MaxRowCalls
    /\ \E row \in 0..(ROWS - 1) :
         \E r \in {create_text_area_for_row(row, cell_grid.cells[row], shape_cache,
                                            text_area_pool, frame_count)} :
             /\ shape_cache' = r.cache
             /\ text_area_pool' = r.pool
             /\ op' = Observed(IF r.index = None THEN "row_skipped"
                               ELSE IF r.result = "Ok" THEN "row_ok" ELSE r.result,
                               from_cells(cell_grid.cells[row], row).text, frame_count,
                               Some(row), r.index, {}, <<>>)
    /\ history' = [history EXCEPT !.adds = @ + 1]
    /\ UNCHANGED <<cell_grid, frame_count>>

\* the start of the next frame: the pool is reset and the frame counted
NextFrameReset ==
    /\ history.resets < MaxRowResets
    /\ text_area_pool' = reset(text_area_pool)
    /\ frame_count' = frame_count + 1
    /\ op' = Observed("reset", <<>>, frame_count + 1, None, None, {}, <<>>)
    /\ history' = [history EXCEPT !.resets = @ + 1]
    /\ UNCHANGED <<shape_cache, cell_grid>>

NextRow == SetColouredCell \/ CreateTextAreaForRow \/ NextFrameReset

SpecRow == InitRow /\ [][NextRow]_vars

(***************************************************************************)
(* C31: right after a row with text was processed with success, the        *)
(* descriptor appended for it carries the slot index get_or_create         *)
(* returned for the row's text and the fingerprint stored in that slot,    *)
(* which holds the row's shaped text; its position and bounds are those of *)
(* the row and its colour that of the row's first visible cell.            *)
(***************************************************************************)
C31_DescriptorMatchesSlot ==
    [][op'.kind = "row_ok"
         => /\ text_area_pool'.active_count = text_area_pool.active_count + 1
            /\ text_area_pool'.areas[text_area_pool.active_count] # None
            /\ \E d \in {text_area_pool'.areas[text_area_pool.active_count][1]},
                  row \in {op'.index[1]} :
                 /\ op'.text # <<>>
                 /\ op'.buffer[1] = get_or_create(shape_cache, op'.text, frame_count).index
                 /\ d.buffer_cache_index = op'.buffer[1]
                 /\ d.text_hash = shape_cache'.entries[d.buffer_cache_index].text_hash
                 /\ shape_cache'.entries[d.buffer_cache_index].buffer
                      = Some(Shape(op'.text))
                 /\ d.left = 0
                 /\ d.top = row * LineHeightScaled
                 /\ d.bounds = [left |-> 0, top |-> row * LineHeightScaled,
                                right |-> SurfaceWidth,
                                bottom |-> (row + 1) * LineHeightScaled]
                 /\ \E col \in 0..(COLS - 1) :
                      /\ cell_grid.cells[row][col].character # 32
                      /\ \A before \in 0..(col - 1) :
                           cell_grid.cells[row][before].character = 32
                      /\ d.default_color
                           = [palette |-> cell_grid.cells[row][col].foreground]]_vars

\* the second row was processed after the first: its descriptor is the
\* pool's second, refers to the second slot and has the colour 1 of its
\* first visible cell, which a space precedes
C31_Witness ==
    /\ op.kind = "row_ok"
    /\ op.index = Some(1)
    /\ text_area_pool.active_count = 2
    /\ text_area_pool.areas[1][1].buffer_cache_index = 1
    /\ text_area_pool.areas[1][1].default_color = [palette |-> 1]
    /\ cell_grid.cells[1][0].character = 32

(***************************************************************************)
(* C32: set_cell(row, col, cell) with row < ROWS and col < COLS stores the *)
(* cell at row `row`, column `col` of the grid, leaves every other cell,   *)
(* and marks row `row` dirty and no other.                                 *)
(***************************************************************************)
C32_SetCellStoresAtRowCol ==
    [][op'.kind = "set_cell"
         => \E row \in {op'.index[1]}, col \in {op'.buffer[1]} :
              /\ cell_grid'.cells[row][col].character = op'.text[1]
              /\ \A r \in 0..(ROWS - 1), k \in 0..(COLS - 1) :
                   <<r, k>> # <<row, col>>
                     => cell_grid'.cells[r][k] = cell_grid.cells[r][k]
              /\ \A r \in 0..(ROWS - 1) :
                   cell_grid'.dirty_rows[r] = (cell_grid.dirty_rows[r] \/ r = row)]_vars

(***************************************************************************)
(* CellGrid<COLS, ROWS> driven through its public operations, coordinates  *)
(* one past the range included.  history.targeted is the set of rows an    *)
(* in-range mutating operation has named since the last clear_dirty_flags. *)
(***************************************************************************)
MaxGridCalls == 4

GridChars == {32, 97}

\* coordinates in range and one past it
GridCols == 0..COLS

GridRows == 0..ROWS

AllRows == 0..(ROWS - 1)

InitGrid ==
    /\ shape_cache = NewShapeCache(SHAPE_CACHE_SIZE)
    /\ text_area_pool = NewTextAreaPool(TEXT_AREA_POOL_SIZE)
    /\ cell_grid = NewCellGrid
    /\ frame_count = 0
    /\ op = Observed("new", <<>>, 0, None, None, {}, <<>>)
    /\ history = NewHistory(SHAPE_CACHE_SIZE)

\* a grid operation was called with args and named the rows of targets
GridCalled(kind, args, targets) ==
    /\ op' = Observed(kind, args, 0, None, None, {}, <<>>)
    /\ history' = [history EXCEPT !.calls = @ + 1, !.targeted = @ \cup targets]
    /\ UNCHANGED <<shape_cache, text_area_pool, frame_count>>

GridSetCell ==
    /\ history.calls < MaxGridCalls
    /\ \E col \in GridCols, row \in GridRows, character \in GridChars :
         /\ cell_grid' = grid_set_cell(cell_grid, col, row, Cell(character))
         /\ GridCalled("grid_set_cell", <<col, row>>,
                       IF col < COLS /\ row < ROWS THEN {row} ELSE {})

GetCellMut ==
    /\ history.calls < MaxGridCalls
    /\ \E col \in GridCols, row \in GridRows, character \in GridChars :
         /\ cell_grid' = get_cell_mut(cell_grid, col, row, Cell(character))
         /\ GridCalled("get_cell_mut", <<col, row>>,
                       IF col < COLS /\ row < ROWS THEN {row} ELSE {})

GetRowMut ==
    /\ history.calls < MaxGridCalls
    /\ \E row \in GridRows, col \in 0..(COLS - 1), character \in GridChars :
         /\ cell_grid' = get_row_mut(cell_grid, row, col, Cell(character))
         /\ GridCalled("get_row_mut", <<row>>, IF row < ROWS THEN {row} ELSE {})

MarkRowDirty ==
    /\ history.calls < MaxGridCalls
    /\ \E row \in GridRows :
         /\ cell_grid' = mark_row_dirty(cell_grid, row)
         /\ GridCalled("mark_row_dirty", <<row>>, IF row < ROWS THEN {row} ELSE {})

ClearRow ==
    /\ history.calls < MaxGridCalls
    /\ \E row \in GridRows :
         /\ cell_grid' = clear_row(cell_grid, row)
         /\ GridCalled("clear_row", <<row>>, IF row < ROWS THEN {row} ELSE {})

\* a copy of a row onto itself is not a mutating operation
CopyRow ==
    /\ history.calls < MaxGridCalls
    /\ \E src_row \in GridRows, dst_row \in GridRows :
         /\ cell_grid' = copy_row(cell_grid, src_row, dst_row)
         /\ GridCalled("copy_row", <<src_row, dst_row>>,
                       IF src_row < ROWS /\ dst_row < ROWS /\ src_row # dst_row
                       THEN {dst_row} ELSE {})

Clear ==
    /\ history.calls < MaxGridCalls
    /\ cell_grid' = clear(cell_grid)
    /\ GridCalled("clear", <<>>, AllRows)

Fill ==
    /\ history.calls < MaxGridCalls
    /\ \E character \in GridChars :
         /\ cell_grid' = fill(cell_grid, Cell(character))
         /\ GridCalled("fill", <<character>>, AllRows)

ScrollUp ==
    /\ history.calls < MaxGridCalls
    /\ \E n \in GridRows :
         /\ cell_grid' = scroll_up(cell_grid, n)
         /\ GridCalled("scroll_up", <<n>>, IF 0 < n /\ n < ROWS THEN AllRows ELSE {})

ScrollDown ==
    /\ history.calls < MaxGridCalls
    /\ \E n \in GridRows :
         /\ cell_grid' = scroll_down(cell_grid, n)
         /\ GridCalled("scroll_down", <<n>>, IF 0 < n /\ n < ROWS THEN AllRows ELSE {})

ClearDirtyFlags ==
    /\ history.calls < MaxGridCalls
    /\ cell_grid' = clear_dirty_flags(cell_grid)
    /\ op' = Observed("clear_dirty_flags", <<>>, 0, None, None, {}, <<>>)
    /\ history' = [history EXCEPT !.calls = @ + 1, !.targeted = {}]
    /\ UNCHANGED <<shape_cache, text_area_pool, frame_count>>

\* dirty_rows_iter, collected: op.areas is the sequence of row indices
DirtyRowsIter ==
    /\ history.calls < MaxGridCalls
    /\ op' = Observed("dirty_rows_iter", <<>>, 0, None, None, {}, dirty_rows_iter(cell_grid, 0))
    /\ history' = [history EXCEPT !.calls = @ + 1]
    /\ UNCHANGED <<shape_cache, text_area_pool, cell_grid, frame_count>>

NextGrid ==
    \/ GridSetCell
    \/ GetCellMut
    \/ GetRowMut
    \/ MarkRowDirty
    \/ ClearRow
    \/ CopyRow
    \/ Clear
    \/ Fill
    \/ ScrollUp
    \/ ScrollDown
    \/ ClearDirtyFlags
    \/ DirtyRowsIter

SpecGrid == InitGrid /\ [][NextGrid]_vars

(***************************************************************************)
(* C33: a row of the grid is dirty exactly when an in-range mutating       *)
(* operation has named it since the last clear_dirty_flags; an operation   *)
(* whose coordinates are out of range changes neither cells, flags nor     *)
(* change_count; dirty_rows_iter yields the dirty rows, each once, in      *)
(* ascending order.                                                        *)
(***************************************************************************)
C33_DirtyIffTargeted ==
    [][/\ \A r \in AllRows : cell_grid'.dirty_rows[r] = (r \in history'.targeted)
       /\ op'.kind \in {"grid_set_cell", "get_cell_mut"}
            /\ ~(op'.text[1] < COLS /\ op'.text[2] < ROWS)
            => cell_grid' = cell_grid
       /\ op'.kind \in {"get_row_mut", "mark_row_dirty", "clear_row", "scroll_up",
                        "scroll_down"}
            /\ op'.text[1] >= ROWS
            => cell_grid' = cell_grid
       /\ op'.kind = "copy_row" /\ (op'.text[1] >= ROWS \/ op'.text[2] >= ROWS)
            => cell_grid' = cell_grid
       /\ op'.kind = "dirty_rows_iter"
            => /\ {op'.areas[k] : k \in 1..Len(op'.areas)}
                    = {r \in AllRows : cell_grid.dirty_rows[r]}
               /\ \A j, k \in 1..Len(op'.areas) : j < k => op'.areas[j] < op'.areas[k]]_vars

\* row 0 was written and the flags were cleared; then row 1 was named, and
\* dirty_rows_iter yielded row 1 alone
C33_Witness ==
    /\ op.kind = "dirty_rows_iter"
    /\ op.areas = <<1>>
    /\ history.targeted = {1}
    /\ cell_grid.cells[0][0].character = 97
    /\ cell_grid.cells[1][0].character = 32

(***************************************************************************)
(* The two copies of LockFreeShapeCache driven by the same calls, with a   *)
(* shaper that always succeeds: shape_cache is the copy of                 *)
(* glyphon/cache.rs, history.twin the copy of advanced_text.rs; op holds   *)
(* what the first copy returned and op.areas what the second returned.     *)
(***************************************************************************)
MaxTwinCalls == 4

\* what a copy returned to a call
Returned(kind, index, buffer) == [kind |-> kind, index |-> index, buffer |-> buffer]

TwinGetOrCreate ==
    /\ shape_cache.hit_count + shape_cache.miss_count < MaxTwinCalls
    /\ \E text \in Requestable, frame \in Frames :
         \E r \in {get_or_create_shaped(shape_cache, text, frame, Shape(text))},
            t \in {advanced_get_or_create(history.twin, text, frame, Shape(text))} :
             /\ shape_cache' = r.cache
             /\ frame_count' = frame
             /\ op' = Observed(IF r.err # "" THEN r.err ELSE IF r.hit THEN "hit" ELSE "miss",
                               text, frame, Some(r.index), r.buffer, {},
                               <<Returned(IF t.err # "" THEN t.err
                                          ELSE IF t.hit THEN "hit" ELSE "miss",
                                          Some(t.index), t.buffer)>>)
             /\ history' = [history EXCEPT
                              !.twin = t.cache,
                              !.seen = IF text[1] - 96 > @ THEN text[1] - 96 ELSE @]
    /\ UNCHANGED <<text_area_pool, cell_grid>>

TwinGetBuffer ==
    /\ \E cache_index \in Indices :
         op' = Observed("get_buffer", <<>>, frame_count, Some(cache_index),
                        get_buffer(shape_cache, cache_index), {},
                        <<Returned("get_buffer", Some(cache_index),
                                   get_buffer(history.twin, cache_index))>>)
    /\ UNCHANGED <<shape_cache, text_area_pool, cell_grid, frame_count, history>>

TwinEvictLruIfNeeded ==
    /\ history.sweeps < MaxSweeps
    /\ \E th \in Thresholds :
         \E c \in {evict_lru_if_needed(shape_cache, th[1], th[2], frame_count)},
            t \in {advanced_evict_lru_if_needed(history.twin, th[1], th[2], frame_count)} :
             /\ shape_cache' = c
             /\ op' = Observed("evict", <<th[1], th[2]>>, frame_count, None, None, {},
                               <<Returned("evict", None, None)>>)
             /\ history' = [history EXCEPT !.twin = t,
                                           !.sweeps = IF c # shape_cache THEN @ + 1 ELSE @]
    /\ UNCHANGED <<text_area_pool, cell_grid, frame_count>>

NextTwin == TwinGetOrCreate \/ TwinGetBuffer \/ TwinEvictLruIfNeeded

SpecTwin == Init /\ [][NextTwin]_vars

(***************************************************************************)
(* C34: driven by the same calls, the copy of glyphon/cache.rs and the     *)
(* copy of advanced_text.rs return the same slot indices and results and   *)
(* hold the same occupied slots, fingerprints, last_used frames and hit    *)
(* and miss counts.                                                        *)
(***************************************************************************)
C34_CopiesAgree ==
    /\ op.areas # <<>>
         => op.areas[1] = Returned(op.kind, op.index, op.buffer)
    /\ shape_cache.hit_count = history.twin.hit_count
    /\ shape_cache.miss_count = history.twin.miss_count
    /\ \A i \in 0..(shape_cache.SIZE - 1) :
         /\ shape_cache.entries[i].buffer = history.twin.entries[i].buffer
         /\ shape_cache.entries[i].text_hash = history.twin.entries[i].text_hash
         /\ shape_cache.entries[i].last_used = history.twin.entries[i].last_used

(***************************************************************************)
(* hash_text_fnv1a_optimized applied to byte sequences of every length     *)
(* from 0 to MaxBytes, and to some longer ones                             *)
(***************************************************************************)
MaxBytes == 5

\* the bytes of the short inputs: the smallest, a letter, the largest
SomeBytes == {0, 97, 255}

\* "foobar", and inputs of two rounds of the unrolled loop, without and
\* with a byte left over
LongInputs ==
    {<<102, 111, 111, 98, 97, 114>>,
     <<255, 0, 255, 0, 255, 0, 255, 0>>,
     <<255, 0, 255, 0, 255, 0, 255, 0, 255>>}

ByteInputs == UNION {[1..n -> SomeBytes] : n \in 0..MaxBytes} \cup LongInputs

InitBytes ==
    /\ shape_cache = NewShapeCache(SIZE)
    /\ text_area_pool = NewTextAreaPool(TEXT_AREA_POOL_SIZE)
    /\ cell_grid = NewCellGrid
    /\ frame_count = 0
    /\ history = NewHistory(SIZE)
    /\ \E bytes \in ByteInputs : op = Observed("input", bytes, 0, None, None, {}, <<>>)

HashBytes ==
    /\ op.kind = "input"
    /\ op' = Observed("hash", op.text, 0, None, Some(hash_text_fnv1a_optimized(op.text)),
                      {}, <<>>)
    /\ UNCHANGED <<shape_cache, text_area_pool, cell_grid, frame_count, history>>

NextBytes == HashBytes

SpecBytes == InitBytes /\ [][NextBytes]_vars

\* FNV-1a as it is defined, a byte at a time: the hash of no byte is the
\* offset basis 0xcbf29ce484222325; a further byte is xor-ed into the low
\* byte and the result multiplied by 0x100000001b3 = 2^40 + 0x1b3 modulo
\* 2^64, here by shifting and adding
RECURSIVE TimesPrime(_, _, _)
TimesPrime(h, k, carry) ==
    IF k > 8 THEN <<>>
    ELSE LET s == (h[k] * 179) + (IF k > 1 THEN h[k - 1] ELSE 0)
                  + (IF k > 5 THEN h[k - 5] ELSE 0) + carry
         IN  <<s % 256>> \o TimesPrime(h, k + 1, s \div 256)

RECURSIVE Fnv1a(_)
Fnv1a(bytes) ==
    IF bytes = <<>> THEN <<37, 35, 34, 132, 228, 156, 242, 203>>
    ELSE CHOOSE out \in
             {TimesPrime([h EXCEPT ![1] = BitXor(h[1], bytes[Len(bytes)])], 1, 0)
                : h \in {Fnv1a(SubSeq(bytes, 1, Len(bytes) - 1))}} : TRUE

(***************************************************************************)
(* C35: hash_text_fnv1a_optimized equals FNV-1a computed a byte at a time  *)
(* (offset basis 0xcbf29ce484222325, prime 0x100000001b3, modulo 2^64) on  *)
(* every byte sequence, those of a length that is no multiple of 4         *)
(* included; the hash of the empty sequence is the offset basis, and       *)
(* "foobar" has the published hash 0x85944171f73967e8.                     *)
(***************************************************************************)
C35_ChunkedEqualsBytewise ==
    op.kind = "hash"
      => /\ op.buffer = Some(Fnv1a(op.text))
         /\ op.text = <<>> => op.buffer = Some(<<37, 35, 34, 132, 228, 156, 242, 203>>)
         /\ op.text = <<102, 111, 111, 98, 97, 114>>
              => op.buffer = Some(<<232, 103, 57, 247, 113, 65, 148, 133>>)

\* nine bytes were hashed: two rounds of four and one byte left over
C35_Witness ==
    /\ op.kind = "hash"
    /\ Len(op.text) = 9
    /\ op.buffer = Some(<<158, 252, 195, 131, 189, 27, 27, 158>>)

(***************************************************************************)
(* C36: among occupied slots with the same last_used frame a sweep takes   *)
(* the slots in ascending index order: a slot is evicted only together     *)
(* with every lower slot of the same last_used; the evicted set is the     *)
(* one the order by (age, index) determines, nothing else deciding it.     *)
(***************************************************************************)
C36_TiesByIndex ==
    [][op'.kind = "evict"
         => /\ \A i, j \in Occupied(shape_cache) :
                 (/\ i < j
                  /\ shape_cache.entries[i].last_used = shape_cache.entries[j].last_used
                  /\ j \in op'.evicted) => i \in op'.evicted
            /\ \A e \in op'.evicted, k \in Occupied(shape_cache) \ op'.evicted :
                 \/ op'.frame - shape_cache.entries[e].last_used
                      < op'.frame - shape_cache.entries[k].last_used
                 \/ /\ shape_cache.entries[e].last_used = shape_cache.entries[k].last_used
                    /\ e < k]_vars

\* a sweep took slot 0 and left slot 1, both last used in the same frame
C36_Witness ==
    /\ op.kind = "evict"
    /\ 0 \in op.evicted
    /\ 1 \in Occupied(shape_cache)
    /\ history.written[0] # None
    /\ shape_cache.entries[1].last_used = op.frame
    /\ shape_cache.hit_count = 0
    /\ shape_cache.miss_count = 2

(***************************************************************************)
(* AdvancedTextRenderer: the cache of advanced_text.rs behind              *)
(* shape_text_cached and cleanup_cache; frame_count is its frame_counter   *)
(***************************************************************************)
MaxAdvancedCalls == 4

\* the frames between two sweeps of shape_text_cached
ADVANCED_EVICT_INTERVAL == 60

\* as shape_text_cached, with the sweep run after the lookup
shape_text_cached_sweep_last(c, frame_counter, text, shaped) ==
    IF text = <<>>
    THEN [cache |-> c, frame_counter |-> frame_counter, index |-> None, buffer |-> None,
          err |-> "BufferCreationFailed", hit |-> FALSE]
    ELSE CHOOSE out \in
             {[cache |-> IF (frame_counter + 1) % ADVANCED_EVICT_INTERVAL = 0
                         THEN advanced_evict_lru_if_needed(r.cache, 4, 5, frame_counter + 1)
                         ELSE r.cache,
               frame_counter |-> frame_counter + 1,
               index |-> Some(r.index), buffer |-> r.buffer, err |-> r.err, hit |-> r.hit]
                : r \in {advanced_get_or_create(c, text, frame_counter + 1, shaped)}} : TRUE

\* shape_text_cached: err names the error returned, "" for Ok
shape_text_cached(c, frame_counter, text, shaped) ==
    IF text = <<>>
    THEN [cache |-> c, frame_counter |-> frame_counter, index |-> None, buffer |-> None,
          err |-> "BufferCreationFailed", hit |-> FALSE]
    ELSE CHOOSE out \in
             {[cache |-> r.cache, frame_counter |-> frame_counter + 1,
               index |-> Some(r.index), buffer |-> r.buffer, err |-> r.err, hit |-> r.hit]
                : r \in {advanced_get_or_create(
                             IF (frame_counter + 1) % ADVANCED_EVICT_INTERVAL = 0
                             THEN advanced_evict_lru_if_needed(c, 4, 5, frame_counter + 1)
                             ELSE c,
                             text, frame_counter + 1, shaped)}} : TRUE

\* n calls of shape_text_cached for the text "a"
RECURSIVE shaped_times(_, _)
shaped_times(r, n) ==
    IF n = 0 THEN r
    ELSE IF n = 1
    THEN CHOOSE out \in
             {[cache |-> f.cache, frame_counter |-> f.frame_counter]
                : f \in {shape_text_cached(r.cache, r.frame_counter, <<97>>, Shape(<<97>>))}}
             : TRUE
    ELSE CHOOSE out \in {shaped_times(h, n - (n \div 2)) : h \in {shaped_times(r, n \div 2)}}
             : TRUE

\* AdvancedTextRenderer::new()
NewAdvanced == [cache |-> NewShapeCache(SIZE), frame_counter |-> 0]

\* the new renderer, or the renderer four calls before its first sweep
InitAdvanced ==
    /\ \E r \in {NewAdvanced, shaped_times(NewAdvanced, ADVANCED_EVICT_INTERVAL - 4)} :
         /\ shape_cache = r.cache
         /\ frame_count = r.frame_counter
    /\ text_area_pool = NewTextAreaPool(TEXT_AREA_POOL_SIZE)
    /\ cell_grid = NewCellGrid
    /\ op = Observed("new", <<>>, 0, None, None, {}, <<>>)
    /\ history = NewHistory(SIZE)

\* the texts asked for: none, "a" .. "d"
AdvancedTexts == {<<>>} \cup {<<96 + k>> : k \in 1..SIZE}

ShapeTextCached ==
    /\ history.calls < MaxAdvancedCalls
    /\ \E text \in AdvancedTexts :
         \E shaped \in ShaperOutputs(text) :
         \E r \in {shape_text_cached(shape_cache, frame_count, text, shaped)} :
             /\ shape_cache' = r.cache
             /\ frame_count' = r.frame_counter
             /\ op' = Observed(IF r.err # "" THEN r.err ELSE IF r.hit THEN "hit" ELSE "miss",
                               text, r.frame_counter, r.index, r.buffer, {}, <<>>)
             /\ history' = [history EXCEPT !.calls = @ + 1,
                                           !.shaped = Some(shaped)]
    /\ UNCHANGED <<text_area_pool, cell_grid>>

\* cleanup_cache: the sweep with threshold 0.5
CleanupCache ==
    /\ history.sweeps < MaxSweeps
    /\ shape_cache' = advanced_evict_lru_if_needed(shape_cache, 1, 2, frame_count)
    /\ op' = Observed("cleanup", <<1, 2>>, frame_count, None, None, {}, <<>>)
    /\ history' = [history EXCEPT !.sweeps = @ + 1]
    /\ UNCHANGED <<text_area_pool, cell_grid, frame_count>>

NextAdvanced == ShapeTextCached \/ CleanupCache

SpecAdvanced == InitAdvanced /\ [][NextAdvanced]_vars

(***************************************************************************)
(* C37: shape_text_cached answers the empty text with BufferCreationFailed *)
(* and leaves frame counter and cache as they were; for any other text it  *)
(* adds one to the frame counter and, when the new counter is a multiple   *)
(* of 60, runs the sweep with threshold 0.8 before the lookup; the buffer  *)
(* it returns is the payload of a slot occupied when the call returns.     *)
(***************************************************************************)
C37_ShapeTextCached ==
    [][op'.kind # "cleanup"
         => /\ op'.text = <<>>
                 => /\ op'.kind = "BufferCreationFailed"
                    /\ shape_cache' = shape_cache
                    /\ frame_count' = frame_count
            /\ op'.text # <<>>
                 => /\ op'.kind # "BufferCreationFailed"
                    /\ frame_count' = frame_count + 1
                    /\ \E swept \in {IF (frame_count + 1) % 60 = 0
                                     THEN advanced_evict_lru_if_needed(
                                              shape_cache, 4, 5, frame_count + 1)
                                     ELSE shape_cache} :
                         shape_cache' = advanced_get_or_create(
                                            swept, op'.text, frame_count + 1,
                                            history'.shaped[1]).cache
            /\ op'.kind \in {"hit", "miss"}
                 => /\ op'.buffer # None
                    /\ shape_cache'.entries[op'.index[1]].buffer = op'.buffer
                    /\ op'.buffer[1].text = op'.text
                    /\ shape_cache'.entries[op'.index[1]].last_used = frame_count']_vars

\* the call of frame 60 asked for the text whose slot its sweep had just
\* emptied: the text was shaped again
C37_Witness ==
    /\ op.kind = "miss"
    /\ op.frame = 60
    /\ op.text = <<97>>
    /\ shape_cache.miss_count = 5
    /\ entries_used(shape_cache) = SIZE

(***************************************************************************)
(* C38: a frame that fails while preparing or rendering counts as a frame  *)
(* (the frame counter advances by one) but clears no dirty flag and runs   *)
(* no maintenance: the grid is as before the frame and no slot of the      *)
(* cache is emptied; a row stays dirty until a frame is drawn, and the     *)
(* frame that follows the failed one looks up every dirty row with text    *)
(* again and submits descriptors for the same rows.                        *)
(***************************************************************************)
C38_FailedFrameKeepsDirtyRows ==
    [][/\ op'.kind = "render_failed"
            => /\ frame_count' = frame_count + 1
               /\ cell_grid' = cell_grid
               /\ dirty_rows(cell_grid') # {}
               /\ op'.text = <<>>
               /\ \A i \in Occupied(shape_cache) : i \in Occupied(shape_cache')
       /\ \A r \in dirty_rows(cell_grid) : r \in dirty_rows(cell_grid') \/ op'.kind = "render"
       /\ (op.kind = "render_failed" /\ op'.kind \in {"render", "render_failed"})
            => /\ shape_cache'.hit_count + shape_cache'.miss_count
                    = shape_cache.hit_count + shape_cache.miss_count
                      + Cardinality(dirty_rows(cell_grid) \ skipped_rows(cell_grid))
               /\ {op'.areas[k].area.top : k \in 1..Len(op'.areas)}
                    = {op.areas[k].area.top : k \in 1..Len(op.areas)}
               /\ op'.areas # <<>>]_vars

\* frame 300 failed with the cache full: no sweep ran, the rows are dirty
C38_Witness ==
    /\ op.kind = "render_failed"
    /\ op.frame = 300
    /\ frame_count = 300
    /\ entries_used(shape_cache) = shape_cache.SIZE
    /\ dirty_rows(cell_grid) # {}
    /\ op.areas # <<>>

====
